---- MODULE Spec2Model ----
(***************************************************************************)
(* A model of qiboicarusq's HardwareCircuit (src/src/qiboicarusq/          *)
(* circuit.py): the timing scheduler _calculate_sequence_duration, the     *)
(* single-sequence and tomography execution paths, execute and the         *)
(* calibration projection _probability_extraction; and of the RFSOC        *)
(* instrument (src/src/qibolab/instruments/icarusqfpga.py): the waveform   *)
(* compilation of RFSOC.play and RFSOC_RO.merge_sweep_results.  Each part  *)
(* has its own specification; the variables of the other parts rest.       *)
(*                                                                         *)
(* Times and durations are integers (the code uses floats; nothing here    *)
(* depends on rounding).  Python's None is the empty tuple and a present   *)
(* value x the one-element tuple <<x>>.                                    *)
(***************************************************************************)
EXTENDS Integers, Sequences, FiniteSets, TLC

VARIABLES
    nqubits,          \* HardwareCircuit.nqubits
    density_matrix,   \* HardwareCircuit._density_matrix
    queue,            \* HardwareCircuit.queue: the gates added so far
    measurement_gate, \* HardwareCircuit.measurement_gate: None or its target_qubits
    qubit_config,     \* HardwareCircuit.qubit_config: "unset" until execute fetches it
    raw,              \* HardwareCircuit._raw
    final_state,      \* HardwareCircuit._final_state
    calls,            \* the dispatcher calls made by the latest operation, in order
    outcome,          \* the latest operation, its arguments and how it ended
    sched_pc,         \* _calculate_sequence_duration: "idle", "loop", "returned", "raised"
    seen,             \* the number of gates the loop has taken from gate_sequence
    last_gate,        \* the gate taken last (None before the first)
    pre_times,        \* qubit_times before the gate taken last
    qubit_times,      \* _calculate_sequence_duration's local qubit_times
    sched_error,      \* the exception that ended the loop, "none" otherwise
    data,             \* _probability_extraction: the caller's data array
    refer_0,          \* _probability_extraction: the caller's refer_0 array
    refer_1,          \* _probability_extraction: the caller's refer_1 array
    extraction,       \* the latest _probability_extraction call: None, or its
                      \* arguments and the value it returned
    play_pc,          \* RFSOC.play: "idle", "loop", "uploaded", "raised"
    played,           \* the pulses of sequence.pulses the loop has taken, in order
    waveform_array,   \* RFSOC.play's local waveform_array: DAC id -> samples
    dac_end_addr,     \* RFSOC.play's local dac_end_addr: DAC id -> address
    dac_delay,        \* device.dac[d].delay
    adc_delay,        \* device.adc[a].delay
    qunits,           \* the qubits device.program_qunit was called for
    payload,          \* what device.upload_waveform was given (None before)
    play_error,       \* the exception that ended play, "none" otherwise
    sweep_res,        \* RFSOC_RO.sweep's local res: key -> accumulated result
    sweep_plays,      \* the dictionaries merged into res so far, in order
    sweepers,         \* RFSOC_RO.sweep: the sweepers it was called with
    sweep_outcome,    \* None, or how the call of sweep ended
    ro_backend,       \* the backend whose play is called: "DummyInstrument" or "RFSOC_RO"
    ro_pulses,        \* the readout pulses of the sequence played, in order
    ro_options,       \* options.acquisition_type and options.averaging_mode
    ro_result,        \* None until play returns, then Some(the dictionary returned)
    sgs_power,        \* SGS100A._power: None until set
    sgs_frequency,    \* SGS100A._frequency: None until set
    sgs_device,       \* the power and frequency written to the device
    sgs_log,          \* the calls made on the SGS100A so far, in order
    sgs_outcome,      \* None, or Some(what the last call returned or raised)
    placer_connectivity,\* Random.connectivity: the edges of the chip
    placer_circuit,   \* circuit_repr of the circuit Random is called with
    placer_left,      \* the samples the loop of Random.__call__ has left
    placer_pc,        \* "idle", "loop", "done" or "raised"
    placer_final,     \* final_mapping and final_cost
    placer_cost,      \* None, or Some(the last call of cost: its mapping and outcome)
    placer_result,    \* None, or Some(the mapping Random.__call__ returned)
    zi_connected,     \* Zurich.is_connected
    zi_session,       \* Zurich.session: "none", "created", "connected" or "disconnected"
    zi_pc,            \* "idle", or "connecting" while the loop of connect runs
    zi_attempt,       \* the attempts the last loop of connect has made
    zi_calls,         \* the calls of connect and disconnect made so far, in order
    zi_outcome        \* None, or Some(what the last call returned or raised)

circuitVars == <<nqubits, density_matrix, queue, measurement_gate, qubit_config,
                 raw, final_state>>
execVars == <<calls, outcome>>
schedVars == <<sched_pc, seen, last_gate, pre_times, qubit_times, sched_error>>
probVars == <<data, refer_0, refer_1, extraction>>
playVars == <<play_pc, played, waveform_array, dac_end_addr, dac_delay, adc_delay,
              qunits, payload, play_error>>
mergeVars == <<sweep_res, sweep_plays>>
sweepVars == <<sweepers, sweep_outcome>>
readoutVars == <<ro_backend, ro_pulses, ro_options, ro_result>>
sgsVars == <<sgs_power, sgs_frequency, sgs_device, sgs_log, sgs_outcome>>
placerVars == <<placer_connectivity, placer_circuit, placer_left, placer_pc, placer_final, placer_cost, placer_result>>
ziVars == <<zi_connected, zi_session, zi_pc, zi_attempt, zi_calls, zi_outcome>>
\* What the operations of HardwareCircuit's queue, scheduler and execution
\* paths leave alone.
nonCircuitVars == <<probVars, playVars, mergeVars, sweepVars, readoutVars, sgsVars, placerVars, ziVars>>
\* What _probability_extraction, RFSOC.play and the merging of sweep results
\* leave alone.
nonProbVars == <<circuitVars, execVars, schedVars, playVars, mergeVars, sweepVars, readoutVars, sgsVars, placerVars, ziVars>>
nonPlayVars == <<circuitVars, execVars, schedVars, probVars, mergeVars, sweepVars, readoutVars, sgsVars, placerVars, ziVars>>
nonMergeVars == <<circuitVars, execVars, schedVars, probVars, playVars, sweepVars, readoutVars, sgsVars, placerVars, ziVars>>
\* What RFSOC_RO.sweep leaves alone.
nonSweepVars == <<circuitVars, execVars, schedVars, probVars, playVars, mergeVars, readoutVars, sgsVars, placerVars, ziVars>>
\* What a backend's play leaves alone, as far as its result dictionary goes.
nonReadoutVars == <<circuitVars, execVars, schedVars, probVars, playVars, mergeVars, sweepVars, sgsVars, placerVars, ziVars>>
\* What the calls on the SGS100A leave alone.
nonSgsVars == <<circuitVars, execVars, schedVars, probVars, playVars, mergeVars, sweepVars, readoutVars, placerVars, ziVars>>
\* What Random.__call__ leaves alone.
nonPlacerVars == <<circuitVars, execVars, schedVars, probVars, playVars, mergeVars, sweepVars, readoutVars, sgsVars, ziVars>>
\* What Zurich.connect and Zurich.disconnect leave alone.
nonZiVars == <<circuitVars, execVars, schedVars, probVars, playVars, mergeVars, sweepVars, readoutVars, sgsVars, placerVars>>
vars == <<nqubits, density_matrix, queue, measurement_gate, qubit_config,
          raw, final_state, calls, outcome,
          sched_pc, seen, last_gate, pre_times, qubit_times, sched_error,
          data, refer_0, refer_1, extraction,
          play_pc, played, waveform_array, dac_end_addr, dac_delay, adc_delay,
          qunits, payload, play_error, sweep_res, sweep_plays,
          sweepers, sweep_outcome,
          ro_backend, ro_pulses, ro_options, ro_result,
          sgs_power, sgs_frequency, sgs_device, sgs_log, sgs_outcome,
          placer_connectivity, placer_circuit, placer_left, placer_pc, placer_final, placer_cost, placer_result,
          zi_connected, zi_session, zi_pc, zi_attempt, zi_calls, zi_outcome>>

----------------------------------------------------------------------------
(* Bounds of the model. *)

MaxQubits == 2
MaxQueue == 2
MaxDur == 1
\* The coordinates of the (I, Q) points handed to _probability_extraction
\* are -MaxIQ .. MaxIQ.
MaxIQ == 1
\* The pulses of the sequences handed to RFSOC.play are at most MaxPulses.
MaxPulses == 2
\* At most MaxPlays play results are merged into one sweep result.
MaxPlays == 2
\* sweep is called with at most MaxSweepers sweepers of at most
\* MaxSweepValues values each.
MaxSweepers == 2
MaxSweepValues == 2
\* At most MaxZiCalls calls of connect and disconnect are made.
MaxZiCalls == 4
\* A circuit representation has at most MaxGates gates and Random takes at
\* most MaxSamples samples.
MaxGates == 2
MaxSamples == 2
\* A sequence played has at most MaxReadouts readout pulses.
MaxReadouts == 2
\* At most MaxCalls calls are made on the SGS100A.
MaxCalls == 3

----------------------------------------------------------------------------
(* Values. *)

None == <<>>
Some(x) == <<x>>

Range(s) == {s[i] : i \in DOMAIN s}

Qubits(n) == 0 .. n - 1

Durations == 0 .. MaxDur

\* A gate as the scheduler sees it: its class, target_qubits, control_qubits
\* and the value of gate.duration(qubit_config).
Gate(kind, targets, controls, dur) ==
    [kind |-> kind, targets |-> targets, controls |-> controls, dur |-> dur]

\* One-qubit tuples, all ordered pairs of distinct qubits, and the target
\* tuples of the barriers: one qubit, two in increasing order, three in a row.
Singles(n) == {<<q>> : q \in Qubits(n)}
Pairs(n) == {<<p, q>> : p, q \in Qubits(n)} \ {<<q, q>> : q \in Qubits(n)}
AlignTuples(n) ==
    Singles(n) \cup {t \in Pairs(n) : t[1] < t[2]}
        \cup (IF n >= 3 THEN {<<q, q + 1, q + 2>> : q \in Qubits(n - 2)} ELSE {})

\* The gates of an n-qubit circuit: one-qubit gates ("RX"), gates on two
\* targets without a control ("SWAP"), CNOT, another controlled gate ("CZ"),
\* Align barriers, and gates whose target_qubits is empty.
DefaultGates(n) ==
    {Gate("RX", t, <<>>, d) : t \in Singles(n), d \in Durations}
        \cup {Gate("SWAP", t, <<>>, d) : t \in Pairs(n), d \in Durations}
ControlledGates(n) ==
    {Gate(k, <<t[2]>>, <<t[1]>>, d) : k \in {"CNOT", "CZ"}, t \in Pairs(n), d \in Durations}
AlignGates(n) == {Gate("Align", t, <<>>, 0) : t \in AlignTuples(n)}
EmptyGates == {Gate(k, <<>>, <<>>, 0) : k \in {"RX", "Align"}}
Gates(n) == DefaultGates(n) \cup ControlledGates(n) \cup AlignGates(n) \cup EmptyGates

----------------------------------------------------------------------------
(* _calculate_sequence_duration, one loop iteration at a time. *)

MaxNum(a, b) == IF a >= b THEN a ELSE b

\* max(v) of a vector v with at least one entry.
MaxOverAll(v) == CHOOSE m \in {v[q] : q \in DOMAIN v} : \A q \in DOMAIN v : v[q] <= m

\* A slip: np.ones for np.zeros.
ZeroTimes_Ones(n) == [q \in Qubits(n) |-> 1]

\* np.zeros(self.nqubits)
ZeroTimes(n) == [q \in Qubits(n) |-> 0]

\* Lines 93-95: m = 0; for q in gate.target_qubits: m = max(m, qubit_times[q])
RECURSIVE AlignMax(_, _, _, _)
AlignMax(times, targets, i, m) ==
    IF i > Len(targets) THEN m
    ELSE AlignMax(times, targets, i + 1, MaxNum(m, times[targets[i]]))

\* A slip: the second loop (lines 97-98) writes m to the first target only.
AlignTimes_FirstOnly(times, g) ==
    LET m == AlignMax(times, g.targets, 1, 0)
    IN  [times EXCEPT ![g.targets[1]] = m]

\* Lines 92-98: the Align branch.
AlignTimes(times, g) ==
    LET m == AlignMax(times, g.targets, 1, 0)
    IN  [q \in DOMAIN times |-> IF q \in Range(g.targets) THEN m ELSE times[q]]

\* A slip: line 105 is missing, the control keeps its old time.
CNOTTimes_TargetOnly(times, g) ==
    LET q == g.targets[1]
        control == g.controls[1]
        start == MaxNum(times[q], times[control])
    IN  [times EXCEPT ![q] = start + g.dur]

\* Lines 100-105: the CNOT branch.
CNOTTimes(times, g) ==
    LET q == g.targets[1]
        control == g.controls[1]
        start == MaxNum(times[q], times[control])
        t1 == [times EXCEPT ![q] = start + g.dur]
    IN  [t1 EXCEPT ![control] = t1[q]]

\* A slip: -= for += at line 108.
DefaultTimes_Subtract(times, g) ==
    [times EXCEPT ![g.targets[1]] = @ - g.dur]

\* Lines 107-108: every other gate.
DefaultTimes(times, g) ==
    [times EXCEPT ![g.targets[1]] = @ + g.dur]

\* isinstance(gate, gates.CNOT), line 100.
IsCNOT(g) == g.kind = "CNOT"

\* isinstance(gate, gates.Align), line 92.
IsAlign(g) == g.kind = "Align"

\* Lines 90-108: the body of the loop for a gate that raises nothing.
ScheduleGate(times, g) ==
    IF IsAlign(g) THEN AlignTimes(times, g)
    ELSE IF IsCNOT(g) THEN CNOTTimes(times, g)
    ELSE DefaultTimes(times, g)

\* The exception the body raises for gate g, "none" when it raises nothing:
\* line 90 indexes target_qubits[0]; lines 104 and 108 read self.qubit_config,
\* an attribute only execute (line 178) ever sets.
GateError(g, cfg) ==
    IF Len(g.targets) = 0 THEN "IndexError"
    ELSE IF ~IsAlign(g) /\ cfg = "unset" THEN "AttributeError"
    ELSE "none"

\* The loop takes the next gate of gate_sequence (line 89) and runs the body.
TakeGate(g) ==
    /\ sched_pc = "loop"
    /\ seen < MaxQueue
    /\ g \in Gates(nqubits)
    /\ seen' = seen + 1
    /\ last_gate' = Some(g)
    /\ pre_times' = qubit_times
    /\ sched_error' = GateError(g, qubit_config)
    /\ IF GateError(g, qubit_config) = "none"
       THEN /\ qubit_times' = ScheduleGate(qubit_times, g)
            /\ sched_pc' = "loop"
       ELSE /\ qubit_times' = qubit_times
            /\ sched_pc' = "raised"
    /\ UNCHANGED <<circuitVars, execVars, nonCircuitVars>>

\* _calculate_sequence_duration is called: line 88.
SchedBegin ==
    /\ sched_pc \in {"idle", "returned", "raised"}
    /\ sched_pc' = "loop"
    /\ seen' = 0
    /\ last_gate' = None
    /\ pre_times' = ZeroTimes(nqubits)
    /\ qubit_times' = ZeroTimes(nqubits)
    /\ sched_error' = "none"
    /\ UNCHANGED <<circuitVars, execVars, nonCircuitVars>>

ProcessAlign == \E g \in Gates(nqubits) :
    IsAlign(g) /\ GateError(g, qubit_config) = "none" /\ TakeGate(g)

ProcessCNOT == \E g \in Gates(nqubits) :
    ~IsAlign(g) /\ IsCNOT(g) /\ GateError(g, qubit_config) = "none" /\ TakeGate(g)

ProcessDefault == \E g \in Gates(nqubits) :
    ~IsAlign(g) /\ ~IsCNOT(g) /\ GateError(g, qubit_config) = "none" /\ TakeGate(g)

ProcessRaises == \E g \in Gates(nqubits) :
    GateError(g, qubit_config) # "none" /\ TakeGate(g)

\* gate_sequence is exhausted: line 110 returns qubit_times.
SchedReturn ==
    /\ sched_pc = "loop"
    /\ sched_pc' = "returned"
    /\ UNCHANGED <<seen, last_gate, pre_times, qubit_times, sched_error>>
    /\ UNCHANGED <<circuitVars, execVars, nonCircuitVars>>

\* No call of _probability_extraction has been made.
NoExtraction ==
    /\ data = <<0, 0>>
    /\ refer_0 = <<0, 0>>
    /\ refer_1 = <<0, 0>>
    /\ extraction = None

\* RFSOC_RO.sweep has not been called.
NoSweep ==
    /\ sweepers = <<>>
    /\ sweep_outcome = None

\* No play of a backend is under way.
NoReadout ==
    /\ ro_backend = "DummyInstrument"
    /\ ro_pulses = <<>>
    /\ ro_options = [acquisition_type |-> "RAW", averaging_mode |-> "CYCLIC"]
    /\ ro_result = None

\* No local oscillator is in use.
NoSgs ==
    /\ sgs_power = None
    /\ sgs_frequency = None
    /\ sgs_device = [power |-> None, frequency |-> None]
    /\ sgs_log = <<>>
    /\ sgs_outcome = None

\* No placer is in use.
NoPlacer ==
    /\ placer_connectivity = {}
    /\ placer_circuit = <<>>
    /\ placer_left = 0
    /\ placer_pc = "idle"
    /\ placer_final = [mapping |-> <<>>, cost |-> 0]
    /\ placer_cost = None
    /\ placer_result = None

\* No Zurich instrument is in use.
NoZi ==
    /\ zi_connected = FALSE
    /\ zi_session = "none"
    /\ zi_pc = "idle"
    /\ zi_attempt = 0
    /\ zi_calls = <<>>
    /\ zi_outcome = None

\* A dictionary without keys.
EmptyDict == [serial \in {} |-> <<>>]

\* No sweep is in progress.
NoMerge ==
    /\ sweep_res = EmptyDict
    /\ sweep_plays = <<>>

\* No RFSOC instrument is in use.
NoPlay ==
    /\ play_pc = "idle"
    /\ played = <<>>
    /\ waveform_array = <<>>
    /\ dac_end_addr = <<>>
    /\ dac_delay = <<>>
    /\ adc_delay = <<>>
    /\ qunits = {}
    /\ payload = None
    /\ play_error = "none"

\* A constructed circuit: HardwareCircuit.__init__, lines 54-57.  The queue
\* and the measurement gate are empty until gates are added.
Constructed(n, dm) ==
    /\ nqubits = n
    /\ density_matrix = dm
    /\ queue = <<>>
    /\ measurement_gate = None
    /\ raw = None
    /\ final_state = None
    /\ calls = <<>>
    /\ outcome = [op |-> "none", initial_state |-> None, error |-> "none"]
    /\ sched_pc = "idle"
    /\ seen = 0
    /\ last_gate = None
    /\ pre_times = ZeroTimes(n)
    /\ qubit_times = ZeroTimes(n)
    /\ sched_error = "none"

\* A circuit nothing has been done with.
NoCircuit == Constructed(1, FALSE) /\ qubit_config = "unset"

\* The scheduler on its own, over every gate sequence of up to MaxQueue gates;
\* qubit_config is either still unset or was fetched by an earlier execute.
InitSched ==
    /\ \E n \in 1 .. MaxQubits :
          /\ Constructed(n, FALSE)
          /\ qubit_config \in {"unset", "set"}
    /\ NoExtraction
    /\ NoPlay
    /\ NoMerge
    /\ NoSweep
    /\ NoReadout
    /\ NoSgs
    /\ NoPlacer
    /\ NoZi

NextSched ==
    \/ SchedBegin
    \/ ProcessAlign
    \/ ProcessCNOT
    \/ ProcessDefault
    \/ ProcessRaises
    \/ SchedReturn

SpecSched == InitSched /\ [][NextSched]_vars

----------------------------------------------------------------------------
(* _calculate_sequence_duration as one call, as the execution paths use it. *)

\* Lines 88-110 from gate i of gate_sequence on: the exception that ends the
\* loop ("none" when it returns) and the qubit_times it returns.
RECURSIVE CalcFrom(_, _, _, _)
CalcFrom(times, gate_sequence, i, cfg) ==
    IF i > Len(gate_sequence) THEN [error |-> "none", times |-> times]
    ELSE IF GateError(gate_sequence[i], cfg) # "none"
         THEN [error |-> GateError(gate_sequence[i], cfg), times |-> times]
         ELSE CalcFrom(ScheduleGate(times, gate_sequence[i]), gate_sequence, i + 1, cfg)

CalculateSequenceDuration(n, gate_sequence, cfg) ==
    CalcFrom(ZeroTimes(n), gate_sequence, 1, cfg)

----------------------------------------------------------------------------
(* The collaborators of circuit.py that the repository's sources do not hold. *)

\* experiment.static.readout_start_time
ReadoutStartTime == 10

\* What scheduler.execute_pulse_sequence and scheduler.execute_tomography may
\* return: an array indexed by qubit id whose first entry is the measured
\* (I, Q) point (for a tomography, what the density matrix is reduced
\* from).  The unit of I and Q is one half, so that (1, 0) is the point
\* (0.5, 0).
RawResults == {<<[i |-> 1, q |-> 0]>>, <<[i |-> 2, q |-> 0]>>}

\* The calibration points scheduler.fetch_config() brings: refer_0 = (0, 0)
\* and refer_1 = (1, 0), in the unit of RawResults.
CalibrationFrame == [refer_0 |-> <<0, 0>>, refer_1 |-> <<2, 0>>]

\* scheduler.check_tomography_required() -> bool
TomographyAnswers == BOOLEAN

\* The gates of tomography: one rotation on one qubit, and its duration.
Rotations == <<"I", "RX_pi_2", "RY_pi_2">>
RotationGate(r, q) == Gate(r, <<q>>, <<>>, IF r = "I" THEN 0 ELSE 1)

\* The number of qubits of nstates = 2^n basis states.
QubitsOfStates(nstates) == CHOOSE n \in 0 .. nstates : 2 ^ n = nstates

\* Digit i (from 0) of k written in the given base.
Digit(k, i, base) == (k \div (base ^ i)) % base

\* tomography.Tomography.basis_states(nstates): for each computational basis
\* state, the gates that prepare it (a pi rotation on every qubit that is 1).
BasisStates(nstates) ==
    LET n == QubitsOfStates(nstates)
    IN  [k \in 1 .. nstates |->
            [i \in 1 .. n |->
                RotationGate(IF Digit(k - 1, i - 1, 2) = 1 THEN "RX_pi" ELSE "I", i - 1)]]

\* tomography.Tomography.gate_sequence(nstates): the pre-rotations, one
\* rotation per qubit, every combination of them, in a fixed order.
GateSequence(nstates) ==
    LET n == QubitsOfStates(nstates)
    IN  [j \in 1 .. Len(Rotations) ^ n |->
            [i \in 1 .. n |-> RotationGate(Rotations[Digit(j - 1, i - 1, Len(Rotations)) + 1], i - 1)]]

\* measurements.MeasurementResult(target_qubits, probabilities, nshots)
MeasurementResult(target_qubits, probabilities, nshots) ==
    [target_qubits |-> target_qubits, probabilities |-> probabilities,
     nshots |-> nshots]

----------------------------------------------------------------------------
(* Execution. *)

InitialStates == {None, Some("state")}
Shots == {None, Some(100)}

\* Lines 112-118: the pulse sequence of a gate queue, as the gates it was
\* built from, the start times handed to them and the measurement appended.
CreatePulseSequence(gate_queue, times) ==
    [gates |-> gate_queue, times |-> times, measurement |-> measurement_gate[1]]

\* A slip: line 125 written as the tomography path writes it (lines 149, 157).
StartTimes_CommonMax(n, durations) ==
    [q \in Qubits(n) |-> ReadoutStartTime - MaxOverAll(durations)]

\* Line 125: readout_start_time - self._calculate_sequence_duration(self.queue)
StartTimes(n, durations) ==
    [q \in Qubits(n) |-> ReadoutStartTime - durations[q]]

\* Lines 149 and 157: np.zeros(self.nqubits) - max(durations)
TomographyTimes(n, durations) ==
    [q \in Qubits(n) |-> 0 - MaxOverAll(durations)]

\* One dispatcher call.
Call(op, sequences, nshots) == [op |-> op, sequences |-> sequences, nshots |-> nshots]

\* The operation ends in exception err, having made the calls cs.
Abort(oc, err, cs) ==
    /\ outcome' = [oc EXCEPT !.error = err]
    /\ calls' = cs
    /\ UNCHANGED <<raw, final_state>>

\* Lines 120-134, _execute_sequence, with qubit_config cfg, after the
\* dispatcher calls cs.
ExecuteSequence(nshots, cfg, cs, oc) ==
    IF measurement_gate = None THEN Abort(oc, "AttributeError", cs)
    ELSE
        \E d \in {CalculateSequenceDuration(nqubits, queue, cfg)} :
            IF d.error # "none" THEN Abort(oc, d.error, cs)
            ELSE IF cfg = "unset" THEN Abort(oc, "AttributeError", cs)
            ELSE \E r \in RawResults :
                    /\ calls' = Append(cs,
                          Call("execute_pulse_sequence",
                               <<CreatePulseSequence(queue, StartTimes(nqubits, d.times))>>,
                               nshots))
                    /\ raw' = Some(r)
                    /\ final_state' = Some(MeasurementResult(measurement_gate[1], r[1], nshots))
                    /\ outcome' = [oc EXCEPT !.error = "none"]

\* Line 156: gates.Align(*tuple(range(self.nqubits)))
AlignAll(n) == Gate("Align", [i \in 1 .. n |-> i - 1], <<>>, 0)

\* A slip: line 156 without the barrier between the queue and the
\* pre-rotation.
TomographySequences_NoAlign(ps_states, prerotation) ==
    ps_states \o [j \in 1 .. Len(prerotation) |-> queue \o prerotation[j]]

\* Lines 148 and 154-156: the gate sequences of the batch, in the order
\* they are built: the basis states, then the queue with each pre-rotation.
TomographySequences(ps_states, prerotation) ==
    ps_states
        \o [j \in 1 .. Len(prerotation) |-> queue \o <<AlignAll(nqubits)>> \o prerotation[j]]

\* Lines 149-151 and 155-158 for one gate sequence whose scheduling ended as
\* d: the exception raised (line 113 reads self.qubit_config).
SequenceError(d, cfg) ==
    IF d.error # "none" THEN d.error
    ELSE IF cfg = "unset" THEN "AttributeError" ELSE "none"

\* The first exception of the two loops, from sequence i on; ds[i] is how
\* the scheduling of sequence i ends.
RECURSIVE FirstError(_, _, _)
FirstError(ds, i, cfg) ==
    IF i > Len(ds) THEN "none"
    ELSE IF SequenceError(ds[i], cfg) # "none" THEN SequenceError(ds[i], cfg)
    ELSE FirstError(ds, i + 1, cfg)

\* ps_array, lines 146-158.
PsArray(seqs, ds) ==
    [k \in 1 .. Len(seqs) |->
        CreatePulseSequence(seqs[k], TomographyTimes(nqubits, ds[k].times))]

\* A slip: every sequence of the batch is dispatched on its own.
TomographyDispatch_OneByOne(ps_array, nshots) ==
    [k \in 1 .. Len(ps_array) |-> Call("execute_pulse_sequence", <<ps_array[k]>>, nshots)]

\* Line 160: the whole batch goes to the dispatcher in one call.
TomographyDispatch(ps_array, nshots) == <<Call("execute_tomography", ps_array, nshots)>>

\* Lines 161-164: the populations are the real parts of the diagonal of the
\* density matrix self._raw[0].
Populations(r, nstates) == [k \in 1 .. nstates |-> <<"real", r[1], k, k>>]

\* Lines 136-167, _execute_tomography_sequence, with qubit_config cfg, after
\* the dispatcher calls cs.
ExecuteTomographySequence(nshots, cfg, cs, oc) ==
    IF measurement_gate = None THEN Abort(oc, "AttributeError", cs)
    ELSE
        \E nstates \in {2 ^ Len(measurement_gate[1])} :
        \E seqs \in {TomographySequences(BasisStates(nstates), GateSequence(nstates))} :
        \E ds \in {[k \in 1 .. Len(seqs) |->
                        CalculateSequenceDuration(nqubits, seqs[k], cfg)]} :
        \E err \in {FirstError(ds, 1, cfg)} :
            IF err # "none" THEN Abort(oc, err, cs)
            ELSE \E r \in RawResults :
                    /\ calls' = cs \o TomographyDispatch(PsArray(seqs, ds), nshots)
                    /\ raw' = Some(r)
                    /\ final_state' =
                          Some(MeasurementResult(measurement_gate[1],
                                                 Populations(r, nstates), nshots))
                    /\ outcome' = [oc EXCEPT !.error = "none"]

\* Python's "a or b" for two values of which a is a bool: a when a is true,
\* b otherwise.
PyOr(a, b) == IF a = TRUE THEN a ELSE b

\* Python's len(x): a bool has no len().
LenRaises(x) == x \in BOOLEAN

\* A slip: the check of line 170 never rejects.
InitialStateGiven_Never(initial_state) == FALSE

\* Line 170.
InitialStateGiven(initial_state) == initial_state # None

\* A slip: the check of line 174 never rejects.
MeasurementMissing_Never == FALSE

\* Line 174.
MeasurementMissing == measurement_gate = None

Outcome(op, initial_state) ==
    [op |-> op, initial_state |-> initial_state, error |-> "none"]

\* Lines 169-184, HardwareCircuit.execute.
execute(initial_state, nshots) ==
    LET oc == Outcome("execute", initial_state)
    IN  /\ sched_pc = "idle"
        /\ IF InitialStateGiven(initial_state)
           THEN Abort(oc, "ValueError", <<>>) /\ UNCHANGED qubit_config
           ELSE IF MeasurementMissing
           THEN Abort(oc, "RuntimeError", <<>>) /\ UNCHANGED qubit_config
           ELSE \E answer \in TomographyAnswers :
                   LET cs == <<Call("fetch_config", <<>>, None),
                               Call("check_tomography_required", <<>>, None)>>
                       x == PyOr(answer, density_matrix)
                   IN  /\ qubit_config' = "set"
                       /\ IF LenRaises(x) THEN Abort(oc, "TypeError", cs)
                          ELSE IF Len(x) # 0
                          THEN ExecuteTomographySequence(nshots, "set", cs, oc)
                          ELSE ExecuteSequence(nshots, "set", cs, oc)
        /\ UNCHANGED <<nqubits, density_matrix, queue, measurement_gate>>
        /\ UNCHANGED <<schedVars, nonCircuitVars>>

\* The parameters of execute besides self, line 169, and the values of
\* measurement_level that __call__ is given.
ExecuteParameters == <<"initial_state", "nshots">>
MeasurementLevels == {2}

\* Lines 186-187, HardwareCircuit.__call__: the call of execute with more
\* positional arguments than execute has parameters raises TypeError before
\* the body of execute runs.
call(initial_state, nshots, measurement_level) ==
    IF Len(<<initial_state, nshots, measurement_level>>) > Len(ExecuteParameters)
    THEN /\ sched_pc = "idle"
         /\ Abort(Outcome("__call__", initial_state), "TypeError", <<>>)
         /\ UNCHANGED <<nqubits, density_matrix, queue, measurement_gate, qubit_config>>
         /\ UNCHANGED <<schedVars, nonCircuitVars>>
    ELSE execute(initial_state, nshots)

\* _execute_sequence called on its own.
execute_sequence(nshots) ==
    /\ sched_pc = "idle"
    /\ ExecuteSequence(nshots, qubit_config, <<>>, Outcome("_execute_sequence", None))
    /\ UNCHANGED <<nqubits, density_matrix, queue, measurement_gate, qubit_config>>
    /\ UNCHANGED <<schedVars, nonCircuitVars>>

\* _execute_tomography_sequence called on its own.
execute_tomography_sequence(nshots) ==
    /\ sched_pc = "idle"
    /\ ExecuteTomographySequence(nshots, qubit_config, <<>>,
                                 Outcome("_execute_tomography_sequence", None))
    /\ UNCHANGED <<nqubits, density_matrix, queue, measurement_gate, qubit_config>>
    /\ UNCHANGED <<schedVars, nonCircuitVars>>

\* The gates a circuit is built from in the execution runs: one-qubit gates
\* of the longest duration, the barrier over all qubits, and a gate without
\* target qubits.
QueueGates(n) ==
    {g \in Gates(n) : g.kind = "RX" /\ (g.dur = MaxDur \/ g.targets = <<>>)}
        \cup {g \in Gates(n) : g.kind = "Align" /\ Len(g.targets) = n}

\* The target_qubits of the measurement gates: the first k qubits.
MeasurementTargets(n) == {[i \in 1 .. k |-> i - 1] : k \in 1 .. n}

\* circuit.add(gate) for a gate that is no measurement: the queue grows.
add(g) ==
    /\ sched_pc = "idle"
    /\ Len(queue) < MaxQueue
    /\ queue' = Append(queue, g)
    /\ outcome' = Outcome("none", None)
    /\ calls' = <<>>
    /\ UNCHANGED <<nqubits, density_matrix, measurement_gate, qubit_config, raw, final_state>>
    /\ UNCHANGED <<schedVars, nonCircuitVars>>

\* circuit.add(gates.M(*targets)): the measurement gate is registered.
add_measurement(targets) ==
    /\ sched_pc = "idle"
    /\ measurement_gate = None
    /\ measurement_gate' = Some(targets)
    /\ outcome' = Outcome("none", None)
    /\ calls' = <<>>
    /\ UNCHANGED <<nqubits, density_matrix, queue, qubit_config, raw, final_state>>
    /\ UNCHANGED <<schedVars, nonCircuitVars>>

InitExec ==
    /\ \E n \in 1 .. MaxQubits, dm \in BOOLEAN :
          /\ Constructed(n, dm)
          /\ qubit_config = "unset"
    /\ NoExtraction
    /\ NoPlay
    /\ NoMerge
    /\ NoSweep
    /\ NoReadout
    /\ NoSgs
    /\ NoPlacer
    /\ NoZi

NextExec ==
    \/ \E g \in QueueGates(nqubits) : add(g)
    \/ \E t \in MeasurementTargets(nqubits) : add_measurement(t)
    \/ \E s \in InitialStates, n \in Shots : execute(s, n)
    \/ \E s \in InitialStates, n \in Shots, l \in MeasurementLevels : call(s, n, l)
    \/ \E n \in Shots : execute_sequence(n)
    \/ \E n \in Shots : execute_tomography_sequence(n)

SpecExec == InitExec /\ [][NextExec]_vars

----------------------------------------------------------------------------
(* _probability_extraction, lines 67-85.  Points are pairs of integers.    *)
(* The rotation is carried exactly: the cosine and the sine of the angle   *)
(* are kept up to one common positive factor, which the comparisons of     *)
(* lines 81-84 and the quotient of line 85 do not see.  The value returned *)
(* is the fraction num / den, not reduced; 0 / 0 is numpy's nan.           *)

Points == (0 - MaxIQ .. MaxIQ) \X (0 - MaxIQ .. MaxIQ)

\* numpy's a - b for two arrays of two entries: a new array.
Minus(a, b) == <<a[1] - b[1], a[2] - b[2]>>

\* np.sign
Sign(x) == IF x > 0 THEN 1 ELSE IF x < 0 THEN 0 - 1 ELSE 0

Abs(x) == IF x < 0 THEN 0 - x ELSE x

\* Line 73: angle = arccos(x / r) * sign(y) for the translated
\* refer_1 = (x, y), r = sqrt(x^2 + y^2).  With a = arccos(x / r),
\* cos(a) = x / r and sin(a) = |y| / r.  For sign(y) = 0 the product is the
\* angle 0 whatever x is; otherwise cos(angle) = cos(a) and
\* sin(angle) = sign(y) * sin(a), kept here times r.  For x = y = 0 the
\* quotient x / r is nan and so are the cosine and the sine.
Angle(r1) ==
    IF r1[1] = 0 /\ r1[2] = 0 THEN [cos |-> 0, sin |-> 0]
    ELSE IF Sign(r1[2]) = 0 THEN [cos |-> 1, sin |-> 0]
    ELSE [cos |-> r1[1], sin |-> Sign(r1[2]) * Abs(r1[2])]

\* The first coordinate of a point rotated as lines 74 and 77 rotate it.
RotatedX(p, angle) == p[1] * angle.cos + p[2] * angle.sin

Ratio(n, d) == [num |-> n, den |-> d]

\* Lines 67-85: the value returned.
ProbabilityExtraction(d, r0, r1) ==
    LET move == r0
        refer1 == Minus(r1, move)
        moved == Minus(d, move)
        angle == Angle(refer1)
        new_data0 == RotatedX(moved, angle)
        new_refer_10 == RotatedX(refer1, angle)
    IN  IF new_data0 < 0 THEN Ratio(0, new_refer_10)
        ELSE IF new_data0 > new_refer_10 THEN Ratio(new_refer_10, new_refer_10)
        ELSE Ratio(new_data0, new_refer_10)

\* Lines 68-71 bind the names refer_0, refer_1 and data to new arrays
\* (x = x - move); the arrays of the caller keep their entries.
ArgumentsAfter(d, r0, r1) == [data |-> d, refer_0 |-> r0, refer_1 |-> r1]

\* One call of _probability_extraction on the caller's three arrays.
probability_extraction ==
    /\ extraction = None
    /\ extraction' = Some([data |-> data, refer_0 |-> refer_0, refer_1 |-> refer_1,
                           value |-> ProbabilityExtraction(data, refer_0, refer_1)])
    /\ data' = ArgumentsAfter(data, refer_0, refer_1).data
    /\ refer_0' = ArgumentsAfter(data, refer_0, refer_1).refer_0
    /\ refer_1' = ArgumentsAfter(data, refer_0, refer_1).refer_1
    /\ UNCHANGED nonProbVars

InitProb ==
    /\ NoCircuit
    /\ NoPlay
    /\ NoMerge
    /\ data \in Points
    /\ refer_0 \in Points
    /\ refer_1 \in Points
    /\ extraction = None
    /\ NoSweep
    /\ NoReadout
    /\ NoSgs
    /\ NoPlacer
    /\ NoZi

NextProb == probability_extraction

SpecProb == InitProb /\ [][NextProb]_vars

----------------------------------------------------------------------------
(* RFSOC.play, src/src/qibolab/instruments/icarusqfpga.py lines 78-161.    *)
(* Times are whole nanoseconds and sample values are integers: the samples *)
(* of the carrier and of the two envelopes are replaced by integer tables  *)
(* that depend on what the samples depend on (the sample index for the     *)
(* carrier, the shape for the envelope).  Rounding of floats is left out.  *)

\* The setup of the instrument, lines 62-72: the sampling rates in MHz and
\* the delay offsets.
DacSamplingRate == 1500
AdcSamplingRate == 500
DelaySamplesOffsetDac == 2
DelaySamplesOffsetAdc == 1

\* The device: its DACs and ADCs, dac.max_samples and dac_max_amplitude.
Dacs == {0, 1}
Adcs == {0, 1}
DacMaxSamples == 32
DacMaxAmplitude == 2

\* self.ports(channel): the DAC and the ADC of a channel;
\* qubit.drive.ports[channel]: the DAC a drive pulse is written to.
Ports(channel) ==
    IF channel = "ch0" THEN [dac |-> 0, adc |-> 0] ELSE [dac |-> 1, adc |-> 1]
DrivePorts(channel) == Ports(channel).dac

\* Python's int() of the quotient a / b, b > 0: truncation toward zero.
TruncDiv(a, b) == IF a >= 0 THEN a \div b ELSE 0 - ((0 - a) \div b)

\* np.ceil of the quotient a / b, b > 0.
CeilDiv(a, b) == 0 - ((0 - a) \div b)

\* Lines 96-97: int(t * 1e-9 * dac_sampling_rate), t in ns, the rate in Hz.
ToSamples(t) == TruncDiv(t * DacSamplingRate, 1000)

\* start and end of the pulse's window: lines 96-97, and lines 128-129 for a
\* readout pulse.
Window(pulse) ==
    IF pulse.type = "READOUT"
    THEN [start |-> 0, end |-> ToSamples(pulse.duration)]
    ELSE [start |-> ToSamples(pulse.start),
          end |-> ToSamples(pulse.start + pulse.duration)]

\* The DAC line 157 writes to: line 95, rebound by line 107 for a drive pulse.
DacOf(pulse) ==
    IF pulse.type = "DRIVE" THEN DrivePorts(pulse.channel) ELSE Ports(pulse.channel).dac

\* The sample of sin(2 pi f t + phase) at sample index i (t = i / rate).
Carrier(i) == 1 + (i % 2)

\* The weights of the DRAG envelope (lines 112-119) and of the hamming
\* window (line 122).
DragWeight == 3
HammingWeight == 5

\* wfm, lines 103-132, for the window w: entry k is the sample at index
\* w.start + k - 1.  np.arange(start, end) is empty for end <= start.
Wfm(pulse, w) ==
    [k \in 1 .. (w.end - w.start) |->
        IF pulse.type = "FLUX" THEN 1
        ELSE IF pulse.type = "READOUT" THEN Carrier(w.start + k - 1)
        ELSE IF pulse.shape = "DRAG" THEN Carrier(w.start + k - 1) * DragWeight
        ELSE Carrier(w.start + k - 1) * HammingWeight]

\* Python's normalisation of a slice bound k for an array of n entries: a
\* negative bound counts from the end, and bounds are cut to 0 .. n.
SliceBound(k, n) ==
    IF k < 0 THEN (IF k + n < 0 THEN 0 ELSE k + n)
    ELSE IF k > n THEN n ELSE k

\* A slip: line 157 with = where the code has +=.
AddInPlace_Overwrite(buffer, start, end, values) ==
    LET lo == SliceBound(start, DacMaxSamples)
        hi == SliceBound(end, DacMaxSamples)
        length == IF hi > lo THEN hi - lo ELSE 0
    IN  IF Len(values) = length
        THEN [error |-> "none",
              buffer |-> [i \in DOMAIN buffer |->
                             IF lo <= i /\ i < hi THEN values[i - lo + 1] ELSE buffer[i]]]
        ELSE IF Len(values) = 1
        THEN [error |-> "none",
              buffer |-> [i \in DOMAIN buffer |->
                             IF lo <= i /\ i < hi THEN values[1] ELSE buffer[i]]]
        ELSE [error |-> "ValueError", buffer |-> buffer]

\* Line 157, buffer[start:end] += values, as numpy does it: the slice is
\* buffer[lo], ..., buffer[hi - 1]; values must have as many entries as the
\* slice, or one entry (which is added to every entry of the slice);
\* otherwise the shapes cannot be broadcast and ValueError is raised with
\* the buffer untouched.
AddInPlace(buffer, start, end, values) ==
    LET lo == SliceBound(start, DacMaxSamples)
        hi == SliceBound(end, DacMaxSamples)
        length == IF hi > lo THEN hi - lo ELSE 0
    IN  IF Len(values) = length
        THEN [error |-> "none",
              buffer |-> [i \in DOMAIN buffer |->
                             IF lo <= i /\ i < hi THEN buffer[i] + values[i - lo + 1]
                             ELSE buffer[i]]]
        ELSE IF Len(values) = 1
        THEN [error |-> "none",
              buffer |-> [i \in DOMAIN buffer |->
                             IF lo <= i /\ i < hi THEN buffer[i] + values[1] ELSE buffer[i]]]
        ELSE [error |-> "ValueError", buffer |-> buffer]

\* Line 157, right-hand side.
Scaled(pulse, wfm) ==
    [k \in DOMAIN wfm |-> DacMaxAmplitude * pulse.amplitude * wfm[k]]

\* Lines 138-140: the pulse start in ADC clock cycles of 8 samples, raised
\* to the next integer, halved, cut to an integer and doubled.
DelayStartAdc(pulse) ==
    TruncDiv(CeilDiv(AdcSamplingRate * pulse.start, 8000), 2) * 2

\* Line 145: int(delay_start_adc * 1.5)
DelayStartDac(delay_start_adc) == TruncDiv(3 * delay_start_adc, 2)

\* Line 158: end >> 4.
EndAddr(end) == end \div 16

ZeroWaveform == [i \in 0 .. DacMaxSamples - 1 |-> 0]

\* Lines 93-158: one pass of the loop, for the pulse taken from
\* sequence.pulses.
PlayPulse(pulse) ==
    /\ play_pc = "loop"
    /\ Len(played) < MaxPulses
    /\ played' = Append(played, pulse)
    /\ IF pulse.type = "READOUT"
       THEN /\ dac_delay' = [dac_delay EXCEPT ![Ports(pulse.channel).dac] =
                                DelayStartDac(DelayStartAdc(pulse)) + DelaySamplesOffsetDac]
            /\ adc_delay' = [a \in Adcs |->
                                IF a = Ports(pulse.channel).adc \/ a = 0
                                THEN DelayStartAdc(pulse) + DelaySamplesOffsetAdc
                                ELSE adc_delay[a]]
            /\ qunits' = qunits \cup {pulse.qubit}
       ELSE UNCHANGED <<dac_delay, adc_delay, qunits>>
    /\ \E w \in {Window(pulse)} :
       \E r \in {AddInPlace(waveform_array[DacOf(pulse)], w.start, w.end,
                            Scaled(pulse, Wfm(pulse, w)))} :
          IF r.error = "none"
          THEN /\ waveform_array' = [waveform_array EXCEPT ![DacOf(pulse)] = r.buffer]
               /\ dac_end_addr' = [dac_end_addr EXCEPT ![DacOf(pulse)] =
                                      IF EndAddr(w.end) > @ THEN EndAddr(w.end) ELSE @]
               /\ UNCHANGED <<play_pc, play_error>>
          ELSE /\ play_pc' = "raised"
               /\ play_error' = r.error
               /\ UNCHANGED <<waveform_array, dac_end_addr>>
    /\ UNCHANGED payload
    /\ UNCHANGED nonPlayVars

\* A pulse as play reads it; the qubit of a channel is fixed.
Pulse(type, channel, start, duration, shape) ==
    [type |-> type, channel |-> channel, qubit |-> Ports(channel).dac,
     start |-> start, duration |-> duration, amplitude |-> 1, shape |-> shape]

\* The pulses of the runs, in ns: starts that fall before the buffer, in it
\* and past it, and durations of 0, 6 and 18 samples.
PulseStarts == {0 - 8, 0, 8, 24}
PulseDurations == {0, 4, 12}
Shapes == {"DRAG", "Unrecognised"}
PlayPulses ==
    {Pulse("FLUX", "ch0", s, d, "Rectangular") : s \in PulseStarts, d \in PulseDurations}
        \cup {Pulse("DRIVE", "ch1", s, 4, sh) : s \in PulseStarts, sh \in Shapes}
        \cup {Pulse("READOUT", "ch1", s, d, "Rectangular") :
                 s \in PulseStarts, d \in PulseDurations \ {0}}

play_flux == \E pulse \in PlayPulses : pulse.type = "FLUX" /\ PlayPulse(pulse)

play_drive == \E pulse \in PlayPulses : pulse.type = "DRIVE" /\ PlayPulse(pulse)

play_readout == \E pulse \in PlayPulses : pulse.type = "READOUT" /\ PlayPulse(pulse)

\* Lines 160-161, after the last pulse: the DACs whose end address is not 0
\* are uploaded.
play_upload ==
    /\ play_pc = "loop"
    /\ play_pc' = "uploaded"
    /\ payload' = Some({[dac |-> d, wfm |-> waveform_array[d], end_addr |-> dac_end_addr[d]] :
                           d \in {x \in Dacs : dac_end_addr[x] # 0}})
    /\ UNCHANGED <<played, waveform_array, dac_end_addr, dac_delay, adc_delay, qunits,
                   play_error>>
    /\ UNCHANGED nonPlayVars

\* play has run lines 87-91 on a device that setup (lines 69-72) configured.
InitPlay ==
    /\ NoCircuit
    /\ NoExtraction
    /\ NoMerge
    /\ play_pc = "loop"
    /\ played = <<>>
    /\ waveform_array = [d \in Dacs |-> ZeroWaveform]
    /\ dac_end_addr = [d \in Dacs |-> 0]
    /\ dac_delay = [d \in Dacs |-> DelaySamplesOffsetDac]
    /\ adc_delay = [a \in Adcs |-> DelaySamplesOffsetAdc]
    /\ qunits = {}
    /\ payload = None
    /\ play_error = "none"
    /\ NoSweep
    /\ NoReadout
    /\ NoSgs
    /\ NoPlacer
    /\ NoZi

NextPlay ==
    \/ play_flux
    \/ play_drive
    \/ play_readout
    \/ play_upload

SpecPlay == InitPlay /\ [][NextPlay]_vars

----------------------------------------------------------------------------
(* RFSOC_RO.merge_sweep_results, icarusqfpga.py lines 340-361, folded as   *)
(* line 336 of RFSOC_RO.sweep folds it.  A dictionary is a function from   *)
(* its keys; a result object is the sequence of the acquisitions it holds. *)

\* The + of two result objects: the acquisitions of the first, then those
\* of the second.
Plus(a, b) == a \o b

\* A slip: line 358 with the operands exchanged.
MergeSweepResults_Exchanged(dict_a, dict_b) ==
    [serial \in DOMAIN dict_a \cup DOMAIN dict_b |->
        IF serial \in DOMAIN dict_b
        THEN IF serial \in DOMAIN dict_a
             THEN Plus(dict_b[serial], dict_a[serial])
             ELSE dict_b[serial]
        ELSE dict_a[serial]]

\* Lines 356-361: the dictionary returned (dict_a, updated in place).
MergeSweepResults(dict_a, dict_b) ==
    [serial \in DOMAIN dict_a \cup DOMAIN dict_b |->
        IF serial \in DOMAIN dict_b
        THEN IF serial \in DOMAIN dict_a
             THEN Plus(dict_a[serial], dict_b[serial])
             ELSE dict_b[serial]
        ELSE dict_a[serial]]

\* The keys of the dictionaries a play returns (qubit ids and pulse
\* serials) and the acquisitions a play may bring for a key.
SweepKeys == {"q0", "serial_a", "serial_b"}
Acquisitions == {"x", "y"}

\* What self.play(qubits, sequence, options) may return: one result object
\* of one acquisition for each of some keys.
PlayResults ==
    UNION {[keys -> {<<v>> : v \in Acquisitions}] : keys \in SUBSET SweepKeys}

\* Line 336: res = self.merge_sweep_results(res, self.play(...))
merge_play ==
    /\ Len(sweep_plays) < MaxPlays
    /\ \E dict_b \in PlayResults :
          /\ sweep_res' = MergeSweepResults(sweep_res, dict_b)
          /\ sweep_plays' = Append(sweep_plays, dict_b)
    /\ UNCHANGED nonMergeVars

\* Line 315: res = {}
InitMerge ==
    /\ NoCircuit
    /\ NoExtraction
    /\ NoPlay
    /\ sweep_res = EmptyDict
    /\ sweep_plays = <<>>
    /\ NoSweep
    /\ NoReadout
    /\ NoSgs
    /\ NoPlacer
    /\ NoZi

NextMerge == merge_play

SpecMerge == InitMerge /\ [][NextMerge]_vars

----------------------------------------------------------------------------
(* RFSOC_RO.sweep, icarusqfpga.py lines 308-338, as one call. *)

\* A sweeper: its parameter, its values and the pulses it sweeps.
Sweeper(parameter, values) ==
    [parameter |-> parameter, values |-> values, pulses |-> <<"pulse_a", "pulse_b">>]

\* Lines 317-323: the parameters that are attributes of a pulse.
PulseAttributes == {"amplitude", "duration", "frequency", "relative_phase", "start"}

SweepParameters == PulseAttributes \cup {"attenuation", "gain", "bias"}

Sweepers ==
    {Sweeper(parameter, [i \in 1 .. k |-> i]) :
        parameter \in SweepParameters, k \in 0 .. MaxSweepValues}

\* Line 311, sweeper > 1: Python 3 does not order a tuple and an int and
\* raises TypeError, whatever the tuple holds.
TupleGreaterThanIntRaises(t, n) == TRUE

\* Line 329, sweep.parameter is Parameter.gain or Parameter.bias: the value
\* of "a or b" is a when a is true and b otherwise, and the enum member
\* Parameter.bias counts as true.
IsGainOrBias(parameter) == IF parameter = "gain" THEN TRUE ELSE TRUE

\* What self.play returns for one value inside sweep.
SweepPlayResult == [key \in {"q0"} |-> <<"x">>]

\* Lines 325-336 from value i on: the exception raised ("none" when the loop
\* ends), res, and what was done, in order.
RECURSIVE SweepLoop(_, _, _, _)
SweepLoop(sweep, i, res, log) ==
    IF i > Len(sweep.values) THEN [error |-> "none", res |-> res, log |-> log]
    ELSE IF sweep.parameter = "attenuation"
    THEN SweepLoop(sweep, i + 1, MergeSweepResults(res, SweepPlayResult),
                   log \o <<<<"attenuation", sweep.values[i]>>, <<"play">>>>)
    ELSE IF IsGainOrBias(sweep.parameter)
    THEN [error |-> "NotImplementedError", res |-> res, log |-> log]
    ELSE SweepLoop(sweep, i + 1, MergeSweepResults(res, SweepPlayResult),
                   log \o [k \in 1 .. Len(sweep.pulses) |->
                              <<"setattr", sweep.pulses[k], sweep.parameter, sweep.values[i]>>]
                       \o <<<<"play">>>>)

\* Lines 311-338.
Sweep(sweeper) ==
    IF TupleGreaterThanIntRaises(sweeper, 1)
    THEN [error |-> "TypeError", res |-> EmptyDict, log |-> <<>>]
    ELSE IF Len(sweeper) = 0
    THEN [error |-> "IndexError", res |-> EmptyDict, log |-> <<>>]
    ELSE SweepLoop(sweeper[1], 1, EmptyDict, <<>>)

\* One call of sweep.
sweep ==
    /\ sweep_outcome = None
    /\ sweep_outcome' = Some(Sweep(sweepers))
    /\ UNCHANGED sweepers
    /\ UNCHANGED nonSweepVars

RECURSIVE Tuples(_, _)
\* The tuples of at most n members of S.
Tuples(S, n) ==
    IF n = 0 THEN {<<>>}
    ELSE Tuples(S, n - 1) \cup {Append(t, x) : t \in Tuples(S, n - 1), x \in S}

InitSweep ==
    /\ NoCircuit
    /\ NoExtraction
    /\ NoPlay
    /\ NoMerge
    /\ sweepers \in Tuples(Sweepers, MaxSweepers)
    /\ sweep_outcome = None
    /\ NoReadout
    /\ NoSgs
    /\ NoPlacer
    /\ NoZi

NextSweep == sweep

SpecSweep == InitSweep /\ [][NextSweep]_vars

(***************************************************************************)
(* The result dictionary of a backend's play: DummyInstrument.get_values,  *)
(* dummy.py lines 59-74, and RFSOC_RO.play with process_readout_signal,    *)
(* icarusqfpga.py lines 238-306.                                           *)
(***************************************************************************)

\* The readout pulses a sequence is made of: pulse.qubit, pulse.frequency and
\* pulse.serial, which names the pulse by its parameters.
ReadoutPulses ==
    {[qubit |-> "q0", frequency |-> 1, serial |-> "ReadoutPulse(q0, 1)"],
     [qubit |-> "q0", frequency |-> 2, serial |-> "ReadoutPulse(q0, 2)"],
     [qubit |-> "q1", frequency |-> 1, serial |-> "ReadoutPulse(q1, 1)"],
     [qubit |-> "q1", frequency |-> 2, serial |-> "ReadoutPulse(q1, 2)"]}

AcquisitionTypes == {"RAW", "INTEGRATION", "DISCRIMINATION"}
AveragingModes == {"SINGLESHOT", "CYCLIC"}

\* The values an acquisition can give: np.random draws of the dummy, a sample
\* of the ADC, an (I, Q) component or a state of the qunit.
AcquiredValues == {0, 1}

\* dict[key] = value.
SetItem(dict, key, value) ==
    [k \in DOMAIN dict \cup {key} |-> IF k = key THEN value ELSE dict[k]]

\* DummyInstrument.get_values: every readout pulse draws its own values
\* (values[i] for the i-th pulse) and stores the one result under the
\* pulse's qubit and under its serial.
RECURSIVE get_values(_, _, _, _)
get_values(sequence, values, i, results) ==
    IF i > Len(sequence) THEN results
    ELSE \* line 73
         get_values(sequence, values, i + 1,
             SetItem(SetItem(results, sequence[i].serial,
                             [type |-> "results_type", values |-> <<values[i]>>]),
                     sequence[i].qubit,
                     [type |-> "results_type", values |-> <<values[i]>>]))

\* IntegratedResults(I + 1j * Q), SampleResults(states) and the .average of
\* an IntegratedResults.
IntegratedResults(I, Q) == [type |-> "IntegratedResults", values |-> <<I, Q>>]
SampleResults(states) == [type |-> "SampleResults", values |-> <<states>>]
average(result) == [type |-> "AveragedIntegratedResults", values |-> result.values]

\* np.dot(raw_signal, cos) and np.dot(raw_signal, sin) of lines 294-298 for a
\* signal of one sample: both reference waves are np.sin of the pulse's
\* frequency, so I and Q are the same number.
ReferenceSample(frequency) == frequency
Demodulate(raw_signal, frequency) ==
    IntegratedResults(raw_signal * ReferenceSample(frequency),
                      raw_signal * ReferenceSample(frequency))

\* RFSOC_RO.process_readout_signal: adc_raw_data maps the ADC of a qubit's
\* readout line (named here by the qubit) to its signal.
RECURSIVE process_readout_signal(_, _, _, _, _)
process_readout_signal(adc_raw_data, sequence, options, i, results) ==
    IF i > Len(sequence) THEN results
    ELSE LET qubit == sequence[i].qubit
             integrated == Demodulate(adc_raw_data[qubit], sequence[i].frequency)
         IN  process_readout_signal(adc_raw_data, sequence, options, i + 1,
                 IF options.averaging_mode # "SINGLESHOT"
                 THEN \* line 302
                      SetItem(SetItem(results, sequence[i].serial, average(integrated)),
                              qubit, average(integrated))
                 ELSE \* lines 299 and 304
                      SetItem(SetItem(results, qubit, integrated),
                              sequence[i].serial, integrated))

\* for ro_pulse in readout_pulses: res[ro_pulse.serial] = res[ro_pulse.qubit]
RECURSIVE CopyToSerials(_, _, _)
CopyToSerials(sequence, i, res) ==
    IF i > Len(sequence) THEN res
    ELSE CopyToSerials(sequence, i + 1,
                       SetItem(res, sequence[i].serial, res[sequence[i].qubit]))

\* readout_qubits of line 239.
ReadoutQubits(sequence) == {sequence[i].qubit : i \in DOMAIN sequence}

\* The qubits of the platform, each with a qunit of its own.
QubitIds == {"q0", "q1"}

\* DummyInstrument.play: one dictionary for each way the random values fall.
dummy_play ==
    /\ ro_result = None
    /\ ro_backend = "DummyInstrument"
    /\ \E values \in [DOMAIN ro_pulses -> AcquiredValues] :
           ro_result' = Some(get_values(ro_pulses, values, 1, EmptyDict))
    /\ UNCHANGED <<ro_backend, ro_pulses, ro_options>>
    /\ UNCHANGED nonReadoutVars

\* RFSOC_RO.play from line 238 on, for each signal the device can return.
rfsoc_ro_play ==
    /\ ro_result = None
    /\ ro_backend = "RFSOC_RO"
    /\ \/ /\ ro_options.acquisition_type = "RAW"
          /\ \E acquired \in [QubitIds -> AcquiredValues] :
                 ro_result' = Some(process_readout_signal(acquired, ro_pulses, ro_options, 1, EmptyDict))
       \/ /\ ro_options.acquisition_type = "INTEGRATION"
          /\ \E acquired \in [ReadoutQubits(ro_pulses) -> AcquiredValues \X AcquiredValues] :
                 ro_result' = Some(CopyToSerials(ro_pulses, 1,
                     [qubit \in DOMAIN acquired |->
                         IF ro_options.averaging_mode # "SINGLESHOT"
                         THEN average(IntegratedResults(acquired[qubit][1], acquired[qubit][2]))
                         ELSE IntegratedResults(acquired[qubit][1], acquired[qubit][2])]))
       \/ /\ ro_options.acquisition_type = "DISCRIMINATION"
          /\ \E acquired \in [QubitIds -> AcquiredValues] :
                 ro_result' = Some(CopyToSerials(ro_pulses, 1,
                     [qubit \in DOMAIN acquired |-> SampleResults(acquired[qubit])]))
    /\ UNCHANGED <<ro_backend, ro_pulses, ro_options>>
    /\ UNCHANGED nonReadoutVars

InitReadout ==
    /\ NoCircuit
    /\ NoExtraction
    /\ NoPlay
    /\ NoMerge
    /\ NoSweep
    /\ ro_backend \in {"DummyInstrument", "RFSOC_RO"}
    /\ ro_pulses \in Tuples(ReadoutPulses, MaxReadouts)
    /\ ro_options \in [acquisition_type : AcquisitionTypes, averaging_mode : AveragingModes]
    /\ ro_result = None
    /\ NoSgs
    /\ NoPlacer
    /\ NoZi

NextReadout == dummy_play \/ rfsoc_ro_play

SpecReadout == InitReadout /\ [][NextReadout]_vars

(***************************************************************************)
(* The local oscillator SGS100A, rohde_schwarz.py lines 31-54, once it is  *)
(* constructed and connected.                                              *)
(***************************************************************************)

\* The powers and frequencies the callers set.
Powers == {0, 5}
Frequencies == {0, 7}

\* self.device.power(power), self.device.frequency(frequency)
DeviceSet(device, parameter, value) == [device EXCEPT ![parameter] = Some(value)]

\* What a call returned or raised.
Returned(op, value) == [op |-> op, error |-> "none", value |-> value]
Raised(op, error) == [op |-> op, error |-> error, value |-> None]

\* get_power and get_frequency, lines 46-54, of the stored attribute.
GetStored_Truthy(op, stored) ==
    IF stored # None /\ stored[1] # 0 THEN Returned(op, stored) ELSE Raised(op, "RuntimeError")

GetStored(op, stored) ==
    IF stored # None THEN Returned(op, stored) ELSE Raised(op, "RuntimeError")

set_power ==
    /\ Len(sgs_log) < MaxCalls
    /\ \E power \in Powers :
           /\ sgs_power' = Some(power)
           /\ sgs_device' = DeviceSet(sgs_device, "power", power)
           /\ sgs_log' = Append(sgs_log, <<"set_power", power>>)
    /\ sgs_outcome' = Some(Returned("set_power", None))
    /\ UNCHANGED sgs_frequency
    /\ UNCHANGED nonSgsVars

set_frequency ==
    /\ Len(sgs_log) < MaxCalls
    /\ \E frequency \in Frequencies :
           /\ sgs_frequency' = Some(frequency)
           /\ sgs_device' = DeviceSet(sgs_device, "frequency", frequency)
           /\ sgs_log' = Append(sgs_log, <<"set_frequency", frequency>>)
    /\ sgs_outcome' = Some(Returned("set_frequency", None))
    /\ UNCHANGED sgs_power
    /\ UNCHANGED nonSgsVars

\* setup is set_power then set_frequency.
setup ==
    /\ Len(sgs_log) < MaxCalls
    /\ \E power \in Powers, frequency \in Frequencies :
           /\ sgs_power' = Some(power)
           /\ sgs_frequency' = Some(frequency)
           /\ sgs_device' = DeviceSet(DeviceSet(sgs_device, "power", power),
                                      "frequency", frequency)
           /\ sgs_log' = Append(sgs_log, <<"setup", power, frequency>>)
    /\ sgs_outcome' = Some(Returned("setup", None))
    /\ UNCHANGED nonSgsVars

get_power ==
    /\ Len(sgs_log) < MaxCalls
    /\ sgs_outcome' = Some(GetStored("get_power", sgs_power))
    /\ sgs_log' = Append(sgs_log, <<"get_power">>)
    /\ UNCHANGED <<sgs_power, sgs_frequency, sgs_device>>
    /\ UNCHANGED nonSgsVars

get_frequency ==
    /\ Len(sgs_log) < MaxCalls
    /\ sgs_outcome' = Some(GetStored("get_frequency", sgs_frequency))
    /\ sgs_log' = Append(sgs_log, <<"get_frequency">>)
    /\ UNCHANGED <<sgs_power, sgs_frequency, sgs_device>>
    /\ UNCHANGED nonSgsVars

\* SGS100A.__init__, lines 19-23.
InitSgs ==
    /\ NoCircuit
    /\ NoExtraction
    /\ NoPlay
    /\ NoMerge
    /\ NoSweep
    /\ NoReadout
    /\ sgs_power = None
    /\ sgs_frequency = None
    /\ sgs_device = [power |-> None, frequency |-> None]
    /\ sgs_log = <<>>
    /\ sgs_outcome = None
    /\ NoPlacer
    /\ NoZi

NextSgs == setup \/ set_power \/ set_frequency \/ get_power \/ get_frequency

SpecSgs == InitSgs /\ [][NextSgs]_vars

(***************************************************************************)
(* The Random placer, placer.py lines 176-212: __call__ and cost.          *)
(***************************************************************************)

\* The nodes of the chip and the connectivities a placer is built with, each
\* the set of its undirected edges.
Nodes == {0, 1, 2}
Connectivities == {{{0, 1}, {1, 2}}, {{0, 1}}}

\* The two-qubit gates create_circuit_repr lists, each the pair of qubits it
\* acts on, and the circuit representations made of them.
TwoQubitGates == {{a, b} : a, b \in Nodes} \ {{a} : a \in Nodes}
CircuitReprs == Tuples(TwoQubitGates, MaxGates)

\* dict(zip(keys, range(nodes))) and the layouts random.sample can give.
TrivialMapping == [node \in Nodes |-> node]
Mappings == {m \in [Nodes -> Nodes] : \A a, b \in Nodes : m[a] = m[b] => a = b}

\* nx.relabel_nodes(self.connectivity, mapping)
relabel_nodes(connectivity, mapping) ==
    {{mapping[a] : a \in edge} : edge \in connectivity}

\* The loop of Random.cost: allowed is None while the loop has bound it to
\* nothing, then Some(index of the gate the loop looked at last).
RECURSIVE CostLoop(_, _, _, _)
CostLoop(graph, circuit_repr, i, allowed) ==
    IF i > Len(circuit_repr)
    THEN allowed
    ELSE IF circuit_repr[i] \notin graph
         THEN Some(i - 1)
         ELSE CostLoop(graph, circuit_repr, i + 1, Some(i - 1))

\* Random.cost, lines 208-212; the return reads allowed, which an empty
\* circuit_repr leaves unbound.
cost(graph, circuit_repr) ==
    LET allowed == CostLoop(graph, circuit_repr, 1, None)
    IN  IF allowed = None
        THEN Raised("cost", "UnboundLocalError")
        ELSE Returned("cost", Some(Len(circuit_repr) - allowed[1]))

\* Lines 185-190: the trivial layout and its cost.
placer_call ==
    /\ placer_pc = "idle"
    /\ LET called == cost(relabel_nodes(placer_connectivity, TrivialMapping), placer_circuit)
       IN  /\ placer_cost' = Some([mapping |-> TrivialMapping, sampled |-> FALSE,
                                   outcome |-> called])
           /\ IF called.error # "none"
              THEN /\ placer_pc' = "raised"
                   /\ UNCHANGED placer_final
              ELSE /\ placer_pc' = "loop"
                   /\ placer_final' = [mapping |-> TrivialMapping, cost |-> called.value[1]]
    /\ UNCHANGED <<placer_connectivity, placer_circuit, placer_left, placer_result>>
    /\ UNCHANGED nonPlacerVars

\* Lines 191-200: one sample of the loop.
placer_sample ==
    /\ placer_pc = "loop"
    /\ placer_left > 0
    /\ \E mapping \in Mappings :
           LET called == cost(relabel_nodes(placer_connectivity, mapping), placer_circuit)
           IN  /\ placer_cost' = Some([mapping |-> mapping, sampled |-> TRUE,
                                       outcome |-> called])
               /\ IF called.error # "none"
                  THEN /\ placer_pc' = "raised"
                       /\ UNCHANGED <<placer_final, placer_left, placer_result>>
                  ELSE IF called.value[1] = 0
                  THEN /\ placer_pc' = "done"
                       /\ placer_result' = Some(mapping)
                       /\ UNCHANGED <<placer_final, placer_left>>
                  ELSE /\ placer_left' = placer_left - 1
                       /\ placer_final' =
                              IF called.value[1] < placer_final.cost
                              THEN [mapping |-> mapping, cost |-> called.value[1]]
                              ELSE placer_final
                       /\ UNCHANGED <<placer_pc, placer_result>>
    /\ UNCHANGED <<placer_connectivity, placer_circuit>>
    /\ UNCHANGED nonPlacerVars

\* Line 201: the samples are used up.
placer_return ==
    /\ placer_pc = "loop"
    /\ placer_left = 0
    /\ placer_pc' = "done"
    /\ placer_result' = Some(placer_final.mapping)
    /\ UNCHANGED <<placer_connectivity, placer_circuit, placer_left, placer_final, placer_cost>>
    /\ UNCHANGED nonPlacerVars

InitPlacer ==
    /\ NoCircuit
    /\ NoExtraction
    /\ NoPlay
    /\ NoMerge
    /\ NoSweep
    /\ NoReadout
    /\ NoSgs
    /\ placer_connectivity \in Connectivities
    /\ placer_circuit \in CircuitReprs
    /\ placer_left \in 0 .. MaxSamples
    /\ placer_pc = "idle"
    /\ placer_final = [mapping |-> TrivialMapping, cost |-> 0]
    /\ placer_cost = None
    /\ placer_result = None
    /\ NoZi

NextPlacer == placer_call \/ placer_sample \/ placer_return

SpecPlacer == InitPlacer /\ [][NextPlacer]_vars

(***************************************************************************)
(* Zurich.connect and Zurich.disconnect, zhinst.py lines 83-117, one       *)
(* connection attempt at a time.                                           *)
(***************************************************************************)

\* range(3), line 85.
ConnectAttempts == 3

\* The statement of the try block that raises when an attempt fails: lines
\* 89, 95 and 96.
FailingStatements == {"from_descriptor", "Session", "connect"}

\* self.session after the statements of an attempt up to the failing one
\* have run: line 95 has bound a new session once line 96 is reached.
SessionAfterFailure(session, statement) ==
    IF statement = "connect" THEN "created" ELSE session

\* A slip: the loop allows one attempt more.
AfterFailure_OneMore(attempt) ==
    IF attempt < ConnectAttempts + 1 THEN "retry" ELSE "raise"

\* After the attempt with this number (from 1) failed: the loop goes on, or
\* it is exhausted and line 102 finds is_connected false.
AfterFailure(attempt) ==
    IF attempt < ConnectAttempts THEN "retry" ELSE "raise"

\* connect is called: line 84.
zi_connect ==
    /\ zi_pc = "idle"
    /\ Len(zi_calls) < MaxZiCalls
    /\ zi_calls' = Append(zi_calls, "connect")
    /\ IF zi_connected
       THEN /\ zi_outcome' = Some(Returned("connect", None))
            /\ UNCHANGED <<zi_pc, zi_attempt>>
       ELSE /\ zi_pc' = "connecting"
            /\ zi_attempt' = 0
            /\ zi_outcome' = None
    /\ UNCHANGED <<zi_connected, zi_session>>
    /\ UNCHANGED nonZiVars

\* An attempt runs the try block to line 98 and breaks out of the loop.
zi_attempt_succeeds ==
    /\ zi_pc = "connecting"
    /\ zi_attempt' = zi_attempt + 1
    /\ zi_session' = "connected"
    /\ zi_connected' = TRUE
    /\ zi_pc' = "idle"
    /\ zi_outcome' = Some(Returned("connect", None))
    /\ UNCHANGED zi_calls
    /\ UNCHANGED nonZiVars

\* An attempt raises in the try block; line 100 catches the exception.
zi_attempt_fails ==
    /\ zi_pc = "connecting"
    /\ zi_attempt' = zi_attempt + 1
    /\ \E statement \in FailingStatements :
           zi_session' = SessionAfterFailure(zi_session, statement)
    /\ IF AfterFailure(zi_attempt + 1) = "retry"
       THEN /\ zi_pc' = "connecting"
            /\ zi_outcome' = None
       ELSE /\ zi_pc' = "idle"
            /\ zi_outcome' = Some(Raised("connect", "InstrumentException"))
    /\ UNCHANGED <<zi_connected, zi_calls>>
    /\ UNCHANGED nonZiVars

\* disconnect, lines 112-117.
zi_disconnect ==
    /\ zi_pc = "idle"
    /\ Len(zi_calls) < MaxZiCalls
    /\ zi_calls' = Append(zi_calls, "disconnect")
    /\ IF zi_connected
       THEN /\ zi_session' = "disconnected"
            /\ zi_connected' = FALSE
       ELSE UNCHANGED <<zi_session, zi_connected>>
    /\ zi_outcome' = Some(Returned("disconnect", None))
    /\ UNCHANGED <<zi_pc, zi_attempt>>
    /\ UNCHANGED nonZiVars

\* Zurich.__init__, lines 73-81.
InitZi ==
    /\ NoCircuit
    /\ NoExtraction
    /\ NoPlay
    /\ NoMerge
    /\ NoSweep
    /\ NoReadout
    /\ NoSgs
    /\ NoPlacer
    /\ zi_connected = FALSE
    /\ zi_session = "none"
    /\ zi_pc = "idle"
    /\ zi_attempt = 0
    /\ zi_calls = <<>>
    /\ zi_outcome = None

NextZi == zi_connect \/ zi_attempt_succeeds \/ zi_attempt_fails \/ zi_disconnect

SpecZi == InitZi /\ [][NextZi]_vars

----------------------------------------------------------------------------
(* The scheduler's claims, under SpecSched. *)

\* The gate the loop took last has been processed without an exception.
Processed == last_gate # None /\ sched_error = "none"

\* The greatest of times[q] for q in S (S not empty).
MaxOver(times, S) ==
    CHOOSE m \in {times[q] : q \in S} : \A q \in S : times[q] <= m

\* C2: right after the scheduler has processed an Align over the qubits Q,
\* every qubit of Q has the same qubit_times value, the greatest of the
\* values the qubits of Q had before the barrier.
C2_BarrierSemantics ==
    (Processed /\ last_gate[1].kind = "Align") =>
        \A q \in Range(last_gate[1].targets) :
            qubit_times[q] = MaxOver(pre_times, Range(last_gate[1].targets))

\* An Align over two qubits whose clocks differed has been processed.
C2_Witness ==
    /\ Processed
    /\ last_gate[1].kind = "Align"
    /\ \E p, q \in Range(last_gate[1].targets) : pre_times[p] < pre_times[q]
    /\ \A q \in Range(last_gate[1].targets) : qubit_times[q] > 0

\* C3: right after the scheduler has processed a gate that has a control
\* qubit (CNOT or any other controlled gate), the control and the target have
\* the same qubit_times value.
C3_ControlledGateSymmetry ==
    (Processed /\ Len(last_gate[1].controls) > 0) =>
        qubit_times[last_gate[1].controls[1]] = qubit_times[last_gate[1].targets[1]]

\* C4: right after the scheduler has processed a CNOT of duration d, the
\* control and the target both have max(target's time before, control's time
\* before) + d.
C4_CNOTAdvancesBoth ==
    (Processed /\ last_gate[1].kind = "CNOT") =>
        LET g == last_gate[1]
            t == g.targets[1]
            c == g.controls[1]
            start == IF pre_times[t] >= pre_times[c] THEN pre_times[t] ELSE pre_times[c]
        IN  /\ qubit_times[t] = start + g.dur
            /\ qubit_times[c] = start + g.dur

\* A CNOT of positive duration has been processed from clocks that differed.
C4_Witness ==
    /\ Processed
    /\ last_gate[1].kind = "CNOT"
    /\ last_gate[1].dur > 0
    /\ pre_times[last_gate[1].targets[1]] # pre_times[last_gate[1].controls[1]]

\* C5: scheduling an empty gate sequence never raises and returns a vector
\* with one entry per qubit, every entry zero.
C5_EmptyQueue ==
    seen = 0 =>
        /\ sched_pc # "raised"
        /\ sched_pc = "returned" =>
            /\ DOMAIN qubit_times = Qubits(nqubits)
            /\ \A q \in Qubits(nqubits) : qubit_times[q] = 0

\* An empty gate sequence has been scheduled and the call has returned.
C5_Witness == sched_pc = "returned" /\ seen = 0 /\ nqubits > 1

\* C6: a gate whose target_qubits is empty makes the scheduler fail with
\* InvalidGateError, not with an index error.
C6_EmptyTargetsInvalidGate ==
    (sched_pc = "raised" /\ Len(last_gate[1].targets) = 0) =>
        sched_error = "InvalidGateError"

----------------------------------------------------------------------------
(* The claims about execution, under SpecExec. *)

\* The sum of the durations of the gates of gate_queue, from gate i on, that
\* have q among their targets.
RECURSIVE SumDurations(_, _, _)
SumDurations(gate_queue, i, q) ==
    IF i > Len(gate_queue) THEN 0
    ELSE (IF q \in Range(gate_queue[i].targets) THEN gate_queue[i].dur ELSE 0)
             + SumDurations(gate_queue, i + 1, q)

\* No gate of gate_queue is an Align or acts on two qubits or more.
OneQubitGatesOnly(gate_queue) ==
    \A i \in DOMAIN gate_queue :
        /\ gate_queue[i].kind # "Align"
        /\ Len(gate_queue[i].targets) + Len(gate_queue[i].controls) <= 1

\* The operation op was the latest and ended without an exception.
Succeeded(op) == outcome.op = op /\ outcome.error = "none"

\* C1: for a queue without two-qubit gates and without Align, the start time
\* _execute_sequence gives qubit q is readout_start_time minus the sum of the
\* durations of the queue's gates on q; a qubit without gates starts at
\* readout_start_time.
C1_StartTimes ==
    (Succeeded("_execute_sequence") /\ OneQubitGatesOnly(queue)) =>
        \A q \in Qubits(nqubits) :
            calls[Len(calls)].sequences[1].times[q]
                = ReadoutStartTime - SumDurations(queue, 1, q)

\* A queue with gates on one qubit and none on another has been executed.
C1_Witness ==
    /\ Succeeded("_execute_sequence")
    /\ OneQubitGatesOnly(queue)
    /\ \E p, q \in Qubits(nqubits) :
          /\ SumDurations(queue, 1, p) > 0
          /\ SumDurations(queue, 1, q) = 0
          /\ calls[Len(calls)].sequences[1].times[q] = ReadoutStartTime

\* C7: execute with an initial_state that is not None ends in ValueError
\* without a single dispatcher call, and leaves _raw and _final_state as
\* they were.
C7_InitialStateRejected ==
    [][\A s \in InitialStates \ {None}, n \in Shots :
          execute(s, n) =>
              /\ outcome'.error = "ValueError"
              /\ calls' = <<>>
              /\ UNCHANGED <<raw, final_state>>]_vars

\* execute was given an initial state on a circuit that has a measurement
\* gate and results of an earlier run, and was rejected.
C7_Witness ==
    /\ outcome.op = "execute"
    /\ outcome.initial_state # None
    /\ outcome.error = "ValueError"
    /\ measurement_gate # None
    /\ raw # None
    /\ final_state # None

\* C8: execute on a circuit without a measurement gate ends in an exception
\* raised before the backend is reached: no sequence is dispatched and no
\* result is stored.
C8_NoMeasurementAborts ==
    [][\A s \in InitialStates, n \in Shots :
          (execute(s, n) /\ measurement_gate = None) =>
              /\ outcome'.error \in {"ValueError", "RuntimeError"}
              /\ \A i \in DOMAIN calls' :
                    calls'[i].op \notin {"execute_pulse_sequence", "execute_tomography"}
              /\ UNCHANGED <<raw, final_state>>]_vars

\* execute without an initial state was called on a circuit that has gates
\* and no measurement gate, and raised RuntimeError.
C8_Witness ==
    /\ outcome.op = "execute"
    /\ outcome.initial_state = None
    /\ outcome.error = "RuntimeError"
    /\ measurement_gate = None
    /\ Len(queue) > 0

\* C9: for a circuit with a measurement gate and no initial state, execute
\* asks the backend once whether tomography is required and the choice
\* between the two paths completes without raising.
C9_SelectionCompletes ==
    (outcome.op = "execute" /\ outcome.initial_state = None /\ measurement_gate # None) =>
        /\ Cardinality({i \in DOMAIN calls : calls[i].op = "check_tomography_required"}) = 1
        /\ outcome.error # "TypeError"

\* C10: a tomography execution over n target qubits makes one dispatcher
\* call, execute_tomography, whose batch holds the 2^n basis-state sequences
\* in basis order and then one sequence per pre-rotation in pre-rotation
\* order.
C10_TomographyBatch ==
    Succeeded("_execute_tomography_sequence") =>
        \A n \in {Len(measurement_gate[1])} :
        \A basis \in {BasisStates(2 ^ n)} :
        \A prerotation \in {GateSequence(2 ^ n)} :
            /\ Len(calls) = 1
            /\ calls[1].op = "execute_tomography"
            /\ \A batch \in {calls[1].sequences} :
                /\ Len(batch) = 2 ^ n + Len(prerotation)
                /\ \A k \in 1 .. 2 ^ n : batch[k].gates = basis[k]
                /\ \A j \in 1 .. Len(prerotation) :
                      /\ 2 ^ n + j \in DOMAIN batch
                      /\ SubSeq(batch[2 ^ n + j].gates,
                                Len(batch[2 ^ n + j].gates) - n + 1,
                                Len(batch[2 ^ n + j].gates)) = prerotation[j]

\* A tomography over two qubits of a circuit with gates has been dispatched.
C10_Witness ==
    /\ Succeeded("_execute_tomography_sequence")
    /\ Len(measurement_gate[1]) = 2
    /\ Len(queue) > 0
    /\ Len(calls) = 1
    /\ Len(calls[1].sequences) = 4 + Len(GateSequence(4))

\* C11: a tomography execution leaves the circuit's queue as it was, and
\* every pre-rotation sequence of the batch it dispatches is that queue,
\* then one Align over all the qubits 0 .. nqubits-1, then the gates of one
\* pre-rotation.
C11_PrerotationSequences ==
    [][(outcome'.op = "_execute_tomography_sequence" /\ outcome'.error = "none") =>
          /\ queue' = queue
          /\ \A nstates \in {2 ^ Len(measurement_gate[1])} :
             \A prerotation \in {GateSequence(nstates)} :
             \A batch \in {calls'[Len(calls')].sequences} :
             \A j \in 1 .. Len(prerotation) :
                 batch[nstates + j].gates
                     = queue \o <<AlignAll(nqubits)>> \o prerotation[j]]_vars

\* A tomography of a two-qubit circuit whose queue holds two gates has been
\* dispatched, and the queue still holds them.
C11_Witness ==
    /\ Succeeded("_execute_tomography_sequence")
    /\ nqubits = 2
    /\ Len(queue) = 2
    /\ \E k \in DOMAIN calls[1].sequences :
          Len(calls[1].sequences[k].gates) > Len(queue) + 1

\* C12: in every sequence of a tomography batch each qubit starts at the
\* common end instant, 0, minus its own scheduled duration in that sequence.
C12_TomographyBackwardTiming ==
    Succeeded("_execute_tomography_sequence") =>
        \A batch \in {calls[1].sequences} :
        \A k \in DOMAIN batch :
        \A d \in {CalculateSequenceDuration(nqubits, batch[k].gates, qubit_config)} :
        \A q \in Qubits(nqubits) :
            batch[k].times[q] = 0 - d.times[q]

----------------------------------------------------------------------------
(* The claims about _probability_extraction, under SpecProb. *)

IsZero(v) == v.den # 0 /\ v.num = 0
IsOne(v) == v.den # 0 /\ v.num = v.den
InUnitInterval(v) ==
    /\ v.den # 0
    /\ v.den > 0 => (0 <= v.num /\ v.num <= v.den)
    /\ v.den < 0 => (v.den <= v.num /\ v.num <= 0)

\* The inner product of a - o and b - o.
Dot(a, b, o) == (a[1] - o[1]) * (b[1] - o[1]) + (a[2] - o[2]) * (b[2] - o[2])

\* C13: for distinct calibration points, in whatever position, the value
\* returned is 0 for data = refer_0 and 1 for data = refer_1.
C13_CalibrationEndpoints ==
    (extraction # None /\ extraction[1].refer_0 # extraction[1].refer_1) =>
        /\ extraction[1].data = extraction[1].refer_0 => IsZero(extraction[1].value)
        /\ extraction[1].data = extraction[1].refer_1 => IsOne(extraction[1].value)

\* C14: for distinct calibration points the value returned lies in [0, 1];
\* it is 1 when the projection of data on the axis from refer_0 to refer_1
\* lies beyond refer_1 and 0 when it lies behind refer_0; the three arrays
\* of the caller are as they were handed in.
C14_SaturatesInUnitInterval ==
    (extraction # None /\ extraction[1].refer_0 # extraction[1].refer_1) =>
        \A e \in {extraction[1]} :
            /\ InUnitInterval(e.value)
            /\ Dot(e.data, e.refer_1, e.refer_0) > Dot(e.refer_1, e.refer_1, e.refer_0)
                  => IsOne(e.value)
            /\ Dot(e.data, e.refer_1, e.refer_0) < 0 => IsZero(e.value)
            /\ data = e.data /\ refer_0 = e.refer_0 /\ refer_1 = e.refer_1

----------------------------------------------------------------------------
(* The single-sequence path and the calibration frame, under SpecExec. *)

\* C15: the probability the single-sequence path stores in its
\* MeasurementResult is the projection of the raw (I, Q) point of qubit 0 on
\* the calibration frame: with refer_0 = (0, 0) and refer_1 = (1, 0), the
\* point (1, 0) gives 1 and the point (0.5, 0) gives 0.5.
C15_StoredProbabilityIsProjection ==
    Succeeded("_execute_sequence") =>
        final_state[1].probabilities
            = ProbabilityExtraction(<<raw[1][1].i, raw[1][1].q>>,
                                    CalibrationFrame.refer_0, CalibrationFrame.refer_1)

----------------------------------------------------------------------------
(* The claims about RFSOC.play, under SpecPlay. *)

\* What play leaves in waveform_array when the sequence is the one pulse.
Alone(pulse) ==
    [d \in Dacs |->
        IF d = DacOf(pulse)
        THEN AddInPlace(ZeroWaveform, Window(pulse).start, Window(pulse).end,
                        Scaled(pulse, Wfm(pulse, Window(pulse)))).buffer
        ELSE ZeroWaveform]

\* The sum of sample i of DAC d over the first k of the waveform arrays.
RECURSIVE SumAt(_, _, _, _)
SumAt(arrays, k, d, i) ==
    IF k = 0 THEN 0 ELSE SumAt(arrays, k - 1, d, i) + arrays[k][d][i]

\* C16: as long as play has not raised, every sample of every DAC is the sum,
\* from 0, of what each pulse taken so far produces when compiled alone: the
\* pulses of one DAC add up, the pulses of another DAC do not count, and a
\* DAC no pulse addresses holds zeros.
C16_WaveformSuperposition ==
    (play_pc \in {"loop", "uploaded"}) =>
        \A alone \in {[k \in DOMAIN played |-> Alone(played[k])]} :
        \A d \in Dacs, i \in 0 .. DacMaxSamples - 1 :
            waveform_array[d][i] = SumAt(alone, Len(played), d, i)

\* play has compiled two pulses whose windows overlap on DAC 1, and DAC 0,
\* which no pulse addressed, holds zeros.
C16_Witness ==
    /\ play_pc = "uploaded"
    /\ Len(played) = 2
    /\ DacOf(played[1]) = 1
    /\ DacOf(played[2]) = 1
    /\ \E i \in 0 .. DacMaxSamples - 1 :
          /\ Alone(played[1])[1][i] # 0
          /\ Alone(played[2])[1][i] # 0
          /\ waveform_array[1][i] = Alone(played[1])[1][i] + Alone(played[2])[1][i]
    /\ waveform_array[0] = ZeroWaveform

\* The envelope variants of a pulse shape.
RecognisedShapes == {"Rectangular", "Gaussian", "DRAG"}

\* C17: once play has taken a pulse whose shape is none of the recognised
\* variants, it has ended in an exception and uploads nothing.
C17_UnrecognisedShapeFails ==
    (\E k \in DOMAIN played : played[k].shape \notin RecognisedShapes) =>
        /\ play_pc = "raised"
        /\ play_error # "none"
        /\ payload = None

\* C18: the pass of the loop for a pulse, whatever its start and end, does
\* not raise and changes only samples of the pulse's own DAC that lie in
\* the pulse's window start <= i < end cut to the buffer: no sample outside
\* it, none reached by wrapping around.
C18_WindowClipped ==
    [][Len(played') = Len(played) + 1 =>
          \A pulse \in {played'[Len(played')]} :
          \A w \in {Window(pulse)} :
              /\ play_error' = "none"
              /\ \A d \in Dacs, i \in 0 .. DacMaxSamples - 1 :
                    waveform_array'[d][i] # waveform_array[d][i] =>
                        (d = DacOf(pulse) /\ w.start <= i /\ i < w.end)]_vars

\* C19: the pass of the loop for a readout pulse adds the readout waveform
\* to samples 0 .. duration-1 of the pulse's DAC and to no other sample; the
\* delay it adds to the ADC offset is an even number of ADC clock cycles of
\* 8 samples, not less than the pulse start in ADC clock cycles; the delay it
\* adds to the DAC offset is 1.5 times that.
C19_ReadoutDelays ==
    [][(Len(played') = Len(played) + 1 /\ played'[Len(played')].type = "READOUT") =>
          \A pulse \in {played'[Len(played')]} :
          \A dac \in {Ports(pulse.channel).dac} :
          \A delay_adc \in {adc_delay'[Ports(pulse.channel).adc] - DelaySamplesOffsetAdc} :
              /\ play_error' = "none" =>
                    \A i \in 0 .. DacMaxSamples - 1 :
                        waveform_array'[dac][i] - waveform_array[dac][i]
                            = IF i < ToSamples(pulse.duration)
                              THEN DacMaxAmplitude * pulse.amplitude * Carrier(i) ELSE 0
              /\ delay_adc % 2 = 0
              /\ delay_adc * 8000 >= AdcSamplingRate * pulse.start
              /\ 2 * (dac_delay'[dac] - DelaySamplesOffsetDac) = 3 * delay_adc]_vars

----------------------------------------------------------------------------
(* The claim about merge_sweep_results, under SpecMerge. *)

\* The results the first k of the dictionaries hold for a key, in order.
RECURSIVE InPlayOrder(_, _, _)
InPlayOrder(dicts, k, key) ==
    IF k = 0 THEN <<>>
    ELSE InPlayOrder(dicts, k - 1, key)
            \o (IF key \in DOMAIN dicts[k] THEN dicts[k][key] ELSE <<>>)

\* C20: merging dict_b into dict_a gives the keys of both; a key of both
\* holds dict_a's value followed by dict_b's, a key of dict_b alone dict_b's
\* value, a key of dict_a alone dict_a's value; and the dictionary folded
\* from the empty one holds, for every key, the results of all the plays
\* that have the key, in play order.
C20_MergeSweepResults ==
    [][Len(sweep_plays') = Len(sweep_plays) + 1 =>
          \A dict_a \in {sweep_res}, dict_b \in {sweep_plays'[Len(sweep_plays')]} :
              /\ DOMAIN sweep_res' = DOMAIN dict_a \cup DOMAIN dict_b
              /\ \A key \in DOMAIN dict_a \cap DOMAIN dict_b :
                    sweep_res'[key] = dict_a[key] \o dict_b[key]
              /\ \A key \in DOMAIN dict_b \ DOMAIN dict_a : sweep_res'[key] = dict_b[key]
              /\ \A key \in DOMAIN dict_a \ DOMAIN dict_b : sweep_res'[key] = dict_a[key]
              /\ \A key \in DOMAIN sweep_res' :
                    sweep_res'[key] = InPlayOrder(sweep_plays', Len(sweep_plays'), key)]_vars

\* Two plays have been merged: one key came with both, with different
\* acquisitions, one with the first play only and one with the second only.
C20_Witness ==
    /\ Len(sweep_plays) = 2
    /\ \E both, first, second \in SweepKeys :
          /\ both \in DOMAIN sweep_plays[1] \cap DOMAIN sweep_plays[2]
          /\ sweep_plays[1][both] # sweep_plays[2][both]
          /\ sweep_res[both] = sweep_plays[1][both] \o sweep_plays[2][both]
          /\ first \in DOMAIN sweep_plays[1] \ DOMAIN sweep_plays[2]
          /\ second \in DOMAIN sweep_plays[2] \ DOMAIN sweep_plays[1]
          /\ DOMAIN sweep_res = SweepKeys

----------------------------------------------------------------------------
(* The claims about RFSOC_RO.sweep, under SpecSweep. *)

\* C21: sweep called with more than one sweeper raises NotImplementedError
\* without a play; called with one sweeper it does not raise at the guard
\* of line 311, whose only exception in this model is TypeError.
C21_SweeperCountGuard ==
    sweep_outcome # None =>
        /\ Len(sweepers) > 1 =>
              /\ sweep_outcome[1].error = "NotImplementedError"
              /\ \A k \in DOMAIN sweep_outcome[1].log : sweep_outcome[1].log[k] # <<"play">>
        /\ Len(sweepers) = 1 => sweep_outcome[1].error # "TypeError"

\* What sweep does for the values from the i-th on, when it sets the
\* attribute on every swept pulse and then plays, value by value.
RECURSIVE SetThenPlay(_, _)
SetThenPlay(sw, i) ==
    IF i > Len(sw.values) THEN <<>>
    ELSE [k \in 1 .. Len(sw.pulses) |->
             <<"setattr", sw.pulses[k], sw.parameter, sw.values[i]>>]
            \o <<<<"play">>>> \o SetThenPlay(sw, i + 1)

\* C30: sweep with one sweeper over a pulse attribute sets the attribute on
\* every swept pulse to each value in order, plays once after each value is
\* set and returns the merge of the play results; it raises
\* NotImplementedError for gain and bias sweeps and for no other; an
\* attenuation sweep sets the attenuator, not a pulse attribute, and plays
\* once per value.
C30_SingleSweeperSweep ==
    (sweep_outcome # None /\ Len(sweepers) = 1) =>
        \A sw \in {sweepers[1]}, o \in {sweep_outcome[1]} :
            /\ sw.parameter \in PulseAttributes =>
                  /\ o.error = "none"
                  /\ o.log = SetThenPlay(sw, 1)
                  /\ DOMAIN o.res = (IF Len(sw.values) = 0 THEN {} ELSE {"q0"})
                  /\ \A key \in DOMAIN o.res :
                        o.res[key] = [j \in 1 .. Len(sw.values) |-> "x"]
            /\ o.error = "NotImplementedError" <=> sw.parameter \in {"gain", "bias"}
            /\ sw.parameter = "attenuation" =>
                  /\ o.error = "none"
                  /\ o.log = [j \in 1 .. 2 * Len(sw.values) |->
                                 IF j % 2 = 1 THEN <<"attenuation", sw.values[(j + 1) \div 2]>>
                                 ELSE <<"play">>]

(***************************************************************************)
(* The claim about the result dictionary of play, under SpecReadout.       *)
(***************************************************************************)

\* C22: the dictionary a backend's play returns has, for every readout pulse
\* of the sequence, an entry under the pulse's qubit and an entry under the
\* pulse's serial, and the two entries are the same result, also when
\* several readout pulses are on the same qubit.
C22_QubitAndSerialEntries ==
    ro_result # None =>
        \A i \in DOMAIN ro_pulses :
            /\ ro_pulses[i].qubit \in DOMAIN ro_result[1]
            /\ ro_pulses[i].serial \in DOMAIN ro_result[1]
            /\ ro_result[1][ro_pulses[i].qubit] = ro_result[1][ro_pulses[i].serial]

(***************************************************************************)
(* The claim about the local oscillator SGS100A, under SpecSgs.            *)
(***************************************************************************)

\* The names of the setter and of the getter of a parameter.
Setter(parameter) == IF parameter = "power" THEN "set_power" ELSE "set_frequency"
Getter(parameter) == IF parameter = "power" THEN "get_power" ELSE "get_frequency"

\* The value the calls of the log set the parameter to last, None when no
\* call set it.
RECURSIVE LastSet(_, _)
LastSet(log, parameter) ==
    IF log = <<>> THEN None
    ELSE LET made == log[Len(log)]
         IN  IF made[1] = "setup"
             THEN Some(IF parameter = "power" THEN made[2] ELSE made[3])
             ELSE IF made[1] = Setter(parameter) THEN Some(made[2])
             ELSE LastSet(SubSeq(log, 1, Len(log) - 1), parameter)

\* C23: after any sequence of setup, set_power and set_frequency calls,
\* get_power and get_frequency return the value set last for their
\* parameter, the value 0 included; setting one parameter leaves the other
\* as it was; a getter called before its parameter was ever set raises
\* RuntimeError.
C23_GettersReturnLastSet ==
    /\ sgs_power = LastSet(sgs_log, "power")
    /\ sgs_frequency = LastSet(sgs_log, "frequency")
    /\ \A parameter \in {"power", "frequency"} :
           (sgs_outcome # None /\ sgs_outcome[1].op = Getter(parameter)) =>
               IF LastSet(sgs_log, parameter) = None
               THEN sgs_outcome[1].error = "RuntimeError"
               ELSE /\ sgs_outcome[1].error = "none"
                    /\ sgs_outcome[1].value = LastSet(sgs_log, parameter)

\* get_power returns the power 0 set by setup, after set_frequency changed
\* the frequency alone.
C23_Witness ==
    /\ Len(sgs_log) = 3
    /\ sgs_log[1] = <<"setup", 0, 0>>
    /\ sgs_log[2] = <<"set_frequency", 7>>
    /\ sgs_outcome = Some(Returned("get_power", Some(0)))
    /\ sgs_frequency = Some(7)

(***************************************************************************)
(* The claim about the Random placer, under SpecPlacer.                    *)
(***************************************************************************)

\* The number of gates left after the longest prefix of gates that are all
\* edges of the graph is removed.
RECURSIVE ReducedLength(_, _)
ReducedLength(graph, circuit_repr) ==
    IF circuit_repr = <<>> \/ Head(circuit_repr) \notin graph
    THEN Len(circuit_repr)
    ELSE ReducedLength(graph, Tail(circuit_repr))

\* C24: Random.cost returns the length of the reduced circuit, the number of
\* gates left after the longest prefix of gates that are edges of the graph
\* is removed; it returns 0 when every gate is an edge of the graph, and
\* Random.__call__ then returns that mapping at once.
C24_CostIsReducedLength ==
    placer_cost # None =>
        LET called == placer_cost[1]
            reduced == ReducedLength(relabel_nodes(placer_connectivity, called.mapping),
                                     placer_circuit)
        IN  /\ called.outcome = Returned("cost", Some(reduced))
            /\ (reduced = 0 /\ called.sampled) =>
                   /\ placer_pc = "done"
                   /\ placer_result = Some(called.mapping)

(***************************************************************************)
(* The scheduler's clocks gate by gate, under SpecSched.                   *)
(***************************************************************************)

\* C25: the scheduler's clocks never run backward: with gate durations that
\* are not negative, after each gate of any queue of default gates, CNOTs and
\* Aligns every qubit's qubit_times is at least what it was before the gate,
\* and no value is negative.
C25_ClocksNeverRunBackward ==
    \A q \in DOMAIN qubit_times :
        /\ qubit_times[q] >= pre_times[q]
        /\ qubit_times[q] >= 0

\* The second gate of a queue, an Align, has moved a clock forward to the
\* time the first gate left on another qubit.
C25_Witness ==
    /\ Processed
    /\ seen = 2
    /\ last_gate[1].kind = "Align"
    /\ \E q \in DOMAIN qubit_times : qubit_times[q] > pre_times[q]

\* C26: processing one gate changes the clocks of the gate's operand qubits
\* only: a default gate changes the clock of every one of its target qubits
\* (by its duration) and of no other qubit, a CNOT changes only its control
\* and its target, an Align only the qubits it lists.
C26_OnlyOperandClocksChange ==
    Processed =>
        LET g == last_gate[1]
        IN  /\ (g.kind # "Align" /\ g.kind # "CNOT") =>
                   \A q \in DOMAIN qubit_times :
                       qubit_times[q] = IF q \in Range(g.targets)
                                        THEN pre_times[q] + g.dur
                                        ELSE pre_times[q]
            /\ g.kind = "CNOT" =>
                   \A q \in DOMAIN qubit_times \ (Range(g.targets) \cup Range(g.controls)) :
                       qubit_times[q] = pre_times[q]
            /\ g.kind = "Align" =>
                   \A q \in DOMAIN qubit_times \ Range(g.targets) :
                       qubit_times[q] = pre_times[q]

(***************************************************************************)
(* The payload of RFSOC.play, under SpecPlay.                              *)
(***************************************************************************)

\* The pulses taken so far that wrote samples of DAC d: their window is in
\* the buffer and not empty.
WritersOf(d) ==
    {k \in DOMAIN played :
        /\ DacOf(played[k]) = d
        /\ 0 <= Window(played[k]).start
        /\ Window(played[k]).start < Window(played[k]).end
        /\ Window(played[k]).start < DacMaxSamples}

\* One past the last sample pulse k wrote.
WrittenEnd(k) ==
    IF Window(played[k]).end < DacMaxSamples THEN Window(played[k]).end ELSE DacMaxSamples

\* C27: in what play uploads, every DAC that received a pulse with a window
\* that is not empty is in the payload, with an end address (in blocks of 16
\* samples) that covers the last sample written to it; a DAC that received
\* no pulse is not in the payload.
C27_PayloadCoversWrittenDacs ==
    play_pc = "uploaded" =>
        \A d \in Dacs :
            /\ WritersOf(d) # {} =>
                   \E entry \in payload[1] :
                       /\ entry.dac = d
                       /\ \A k \in WritersOf(d) : 16 * entry.end_addr >= WrittenEnd(k)
            /\ (\A k \in DOMAIN played : DacOf(played[k]) # d) =>
                   \A entry \in payload[1] : entry.dac # d

(***************************************************************************)
(* The claim about Zurich.connect and Zurich.disconnect, under SpecZi.     *)
(***************************************************************************)

\* C28: connect makes at most three attempts and stops at the first that
\* succeeds; is_connected is true after connect returns, and only if an
\* attempt succeeded; when three attempts have failed connect raises
\* InstrumentException and is_connected is still false; connect called while
\* connected makes no attempt and changes nothing; disconnect sets
\* is_connected to false when connected and leaves the session alone when
\* already disconnected.
C28_ConnectAttempts ==
    [][/\ zi_attempt' <= 3
       /\ zi_pc' = "connecting" => ~zi_connected'
       /\ zi_connected' => zi_session' = "connected"
       /\ zi_outcome' = Some(Returned("connect", None)) => zi_connected'
       /\ zi_outcome' = Some(Raised("connect", "InstrumentException")) =>
              (~zi_connected' /\ zi_attempt' = 3)
       /\ (zi_attempt' = zi_attempt + 1 /\ zi_outcome' = None) =>
              (~zi_connected' /\ zi_attempt' < 3)
       /\ (Len(zi_calls') = Len(zi_calls) + 1 /\ zi_connected /\ zi_outcome' # None
               /\ zi_outcome'[1].op = "connect") =>
              (zi_pc' = "idle" /\ UNCHANGED <<zi_connected, zi_session, zi_attempt>>)
       /\ (zi_outcome' # None /\ zi_outcome'[1].op = "disconnect"
               /\ Len(zi_calls') = Len(zi_calls) + 1) =>
              /\ ~zi_connected'
              /\ ~zi_connected => zi_session' = zi_session]_vars

\* connect has raised after three failed attempts, a second connect has
\* succeeded at its second attempt, and disconnect has been called.
C28_Witness ==
    /\ zi_calls = <<"connect", "connect", "disconnect">>
    /\ zi_attempt = 2
    /\ zi_session = "disconnected"
    /\ ~zi_connected
    /\ zi_outcome = Some(Returned("disconnect", None))

(***************************************************************************)
(* The claim about calling a HardwareCircuit, under SpecExec.              *)
(***************************************************************************)

\* C29: calling a circuit as a function, circuit(initial_state, nshots),
\* delegates to execute with the same initial_state and nshots and ends as
\* execute does: in ValueError when an initial state is given, in
\* RuntimeError when the measurement gate is missing, and otherwise with
\* the calibration data fetched and the dispatcher asked whether tomography
\* is required.
C29_CallDelegatesToExecute ==
    [][outcome'.op = "__call__" =>
          /\ InitialStateGiven(outcome'.initial_state) => outcome'.error = "ValueError"
          /\ (~InitialStateGiven(outcome'.initial_state) /\ MeasurementMissing) =>
                 outcome'.error = "RuntimeError"
          /\ (~InitialStateGiven(outcome'.initial_state) /\ ~MeasurementMissing) =>
                 /\ qubit_config' = "set"
                 /\ Len(calls') >= 2
                 /\ calls'[1].op = "fetch_config"
                 /\ calls'[2].op = "check_tomography_required"]_vars

====
